---- MODULE Spec2Model ----
(***************************************************************************)
(* Song request hub: the shared store (requests, requesters, user_votes),  *)
(* its server-side procedures (add_vote, lock_request, unlock_request) and *)
(* the client handlers that mutate it.                                     *)
(*                                                                         *)
(* Store semantics.  Every client-issued statement is one autocommit       *)
(* transaction.  A procedure call (rpc) is one transaction of several      *)
(* statements at READ COMMITTED: each statement reads the committed rows   *)
(* plus the transaction's own writes, a written row stays row-locked until *)
(* the transaction commits, and a statement that has to write a row locked *)
(* by another transaction waits for it.                                    *)
(***************************************************************************)
EXTENDS Integers, Sequences, FiniteSets, TLC

\* ---------------------------------------------------------------- bounds
NumProcs == 2
MaxReq == 2
MaxCalls == 2
MaxVoteCalls == 1
MaxSubmits == 1

Procs == 1..NumProcs
ReqIds == 1..MaxReq
Names == {"alice", "bob"}

\* title.toLowerCase()
Lower(t) == IF t = "Song X" THEN "song x" ELSE t
Titles == {"song x", "Song X", "song y"}

VARIABLES
  requests,    \* relation requests: id -> row
  requesters,  \* relation requesters: request id -> names, in insertion order
  user_votes,  \* relation user_votes: set of <<request_id, user_id>>
  clock,       \* store time, source of created_at
  pc,          \* per client: position in the running handler
  arg,         \* per client: request id the running handler was called with
  usr,         \* per client: voter / requester identity of the running handler
  tmp,         \* per client: local variables of the running handler
  res,         \* per client: outcome of the last finished handler
  held,        \* per client: rows written (row-locked) by its open transaction
  pend,        \* per client: uncommitted row versions of its open transaction
  pendVotes,   \* per client: uncommitted user_votes inserts
  calls,       \* per client: number of handlers started
  quota,       \* per client: number of handlers it starts in this run
  list,        \* per client: local copy of the request list (state `requests`)
  evq,         \* per client: change events not yet delivered
  inflight,    \* per client: refetch responses not yet returned
  subscribed,  \* per client: its requests channel is subscribed
  hist,        \* outcomes the vote entry points have returned so far
  votes0,      \* votes of each request in the initial state
  optimisticRequests, \* per client: App state optimisticRequests (by temp id)
  uiRequests,  \* per client: the page component's state optimisticRequests
  optimisticVotes,    \* per client: the page component's state optimisticVotes
  appVotes,    \* per client: state optimisticVotes of the older App
  votingStates,       \* per client: request ids with a vote in progress
  timers,      \* per client: setTimeout callbacks not yet run
  dateNow,     \* Date.now()
  rendered,    \* per client: the request list last handed to the vote list
  requestRetriesRef,  \* per client: requestRetriesRef.current
  toasts,      \* per client: notifications shown, per submit action
  requestInProgressRef,  \* per client: requestInProgressRef.current
  executions   \* per client: calls of handleSubmitRequest past its guard

vars == <<requests, requesters, user_votes, clock, pc, arg, usr, tmp, res,
          held, pend, pendVotes, calls, quota, list, evq, inflight, subscribed,
          hist, votes0, optimisticRequests, uiRequests, optimisticVotes,
          appVotes, votingStates, timers, dateNow, rendered, requestRetriesRef,
          toasts, requestInProgressRef, executions>>

txVars == <<held, pend, pendVotes>>
feedVars == <<list, inflight, subscribed>>
ghostVars == <<hist, votes0, quota>>
overlayVars == <<optimisticRequests, uiRequests, optimisticVotes, appVotes,
                 votingStates, timers, dateNow, rendered>>
guardVars == <<requestInProgressRef, executions>>
notifyVars == <<requestRetriesRef, toasts, guardVars>>

\* ------------------------------------------------------------- the store
NoRow ==
  [exists |-> FALSE, title |-> "song x", votes |-> 0, is_locked |-> FALSE,
   is_played |-> FALSE, status |-> "pending", created_at |-> 0]

\* INSERT INTO requests with the column values every submit handler sends
NewRowVoted(t, now) ==
  [exists |-> TRUE, title |-> t, votes |-> 1, is_locked |-> FALSE,
   is_played |-> FALSE, status |-> "pending", created_at |-> now]

NewRow(t, now) ==
  [exists |-> TRUE, title |-> t, votes |-> 0, is_locked |-> FALSE,
   is_played |-> FALSE, status |-> "pending", created_at |-> now]

\* local variables of a running handler: newVoteCount, data.title,
\* existingRequest / newRequest ids, the tempId of App.handleSubmitRequest and
\* of the page component; match and matchCI remember the unplayed request
\* that held the title (exactly, ignoring case) when submit was called;
\* action and attempt number the user's submit action the handler serves and
\* the attempts made for it
NoTmp == [n |-> 0, title |-> "song x", found |-> 0, made |-> 0, match |-> 0,
          matchCI |-> 0, tempId |-> 0, uiTempId |-> 0, action |-> 0,
          attempt |-> 0, cleared |-> FALSE]
\* voter identities: currentUser.id || currentUser.name of a named user, and
\* the disposable `kiosk_${Date.now()}_${random}` identity of one kiosk vote
Named(n) == <<n, 0, 0>>
KioskId(p, k) == <<"kiosk", p, k>>
NamedIds == {Named(n) : n \in Names}

\* outcome of a handler: the row it targeted as it was before, and for submit
\* the request it created (made) and the size of the requesters list it left;
\* thrown: the handler's promise rejected instead of resolving to a value
Res(op, id, user, ok, was) ==
  [op |-> op, id |-> id, user |-> user, ok |-> ok, was |-> was, match |-> 0,
   matchCI |-> 0, made |-> 0, nreq |-> 0, thrown |-> FALSE]

\* nothing rendered yet
NotRendered == [by |-> "none", handed |-> <<>>, shown |-> <<>>]

\* Map.get(key) of a key the map does not hold
Undefined == 0 - 1

NoRes == Res("none", 0, Named("alice"), FALSE, NoRow)

\* the row version transaction p reads: its own write, else the committed row
View(p, r) == IF r \in held[p] THEN pend[p][r] ELSE requests[r]

\* row r is row-locked by a transaction other than p
LockedByOther(p, r) == \E q \in Procs \ {p} : r \in held[q]

\* COMMIT: the written row versions and inserted votes become visible
Committed(p) == [r \in ReqIds |-> View(p, r)]

TxClear(p) ==
  /\ held' = [held EXCEPT ![p] = {}]
  /\ pend' = [pend EXCEPT ![p] = [r \in ReqIds |-> NoRow]]
  /\ pendVotes' = [pendVotes EXCEPT ![p] = {}]

Finish(p, r) ==
  /\ pc' = [pc EXCEPT ![p] = "idle"]
  /\ res' = [res EXCEPT ![p] = r]

Begin(p, label, r, u, t) ==
  /\ pc[p] = "idle"
  /\ calls[p] < quota[p]
  /\ calls' = [calls EXCEPT ![p] = @ + 1]
  /\ pc' = [pc EXCEPT ![p] = label]
  /\ arg' = [arg EXCEPT ![p] = r]
  /\ usr' = [usr EXCEPT ![p] = u]
  /\ tmp' = [tmp EXCEPT ![p] = t]

\* the change feed: one event per written row, to every subscribed channel
Emit(n) ==
  evq' = [c \in Procs |-> IF subscribed[c] THEN evq[c] + n ELSE evq[c]]

\* ------------------------------------------------ lock / unlock / played
\* rpc('lock_request', {request_id}): the call opens the transaction
lock_request_call(p, r) ==
  /\ Begin(p, "lock_clear", r, usr[p], NoTmp)
  /\ UNCHANGED <<requests, requesters, user_votes, clock, res, txVars,
                 feedVars, evq, ghostVars>>

\* UPDATE requests SET is_locked = false WHERE is_locked = true
lock_request_clear(p) ==
  /\ pc[p] = "lock_clear"
  /\ LET hit == {r \in ReqIds : View(p, r).exists /\ View(p, r).is_locked}
     IN /\ \A r \in hit : ~LockedByOther(p, r)
        /\ pend' = [pend EXCEPT ![p] =
                      [r \in ReqIds |-> IF r \in hit
                                         THEN [View(p, r) EXCEPT !.is_locked = FALSE]
                                         ELSE pend[p][r]]]
        /\ held' = [held EXCEPT ![p] = @ \cup hit]
  /\ pc' = [pc EXCEPT ![p] = "lock_set"]
  /\ UNCHANGED <<requests, requesters, user_votes, clock, arg, usr, tmp, res,
                 pendVotes, calls, feedVars, evq, ghostVars>>

\* UPDATE requests SET is_locked = true WHERE id = request_id
lock_request_set(p) ==
  /\ pc[p] = "lock_set"
  /\ LET hit == {r \in {arg[p]} : View(p, r).exists}
     IN /\ \A r \in hit : ~LockedByOther(p, r)
        /\ pend' = [pend EXCEPT ![p] =
                      [r \in ReqIds |-> IF r \in hit
                                         THEN [View(p, r) EXCEPT !.is_locked = TRUE]
                                         ELSE pend[p][r]]]
        /\ held' = [held EXCEPT ![p] = @ \cup hit]
  /\ pc' = [pc EXCEPT ![p] = "lock_commit"]
  /\ UNCHANGED <<requests, requesters, user_votes, clock, arg, usr, tmp, res,
                 pendVotes, calls, feedVars, evq, ghostVars>>

\* the procedure returns and its transaction commits
lock_request_commit(p) ==
  /\ pc[p] = "lock_commit"
  /\ requests' = Committed(p)
  /\ Emit(Cardinality(held[p]))
  /\ TxClear(p)
  /\ Finish(p, Res("lock_request", arg[p], usr[p], TRUE, requests[arg[p]]))
  /\ UNCHANGED <<requesters, user_votes, clock, arg, usr, tmp, calls,
                 feedVars, ghostVars>>

\* rpc('unlock_request', {request_id}): one statement, one transaction
\* UPDATE requests SET is_locked = false WHERE id = request_id
unlock_request(p, r) ==
  /\ Begin(p, "idle", r, usr[p], NoTmp)
  /\ ~LockedByOther(p, r)
  /\ requests' = [requests EXCEPT ![r] =
                    IF @.exists THEN [@ EXCEPT !.is_locked = FALSE] ELSE @]
  /\ Emit(IF requests[r].exists THEN 1 ELSE 0)
  /\ res' = [res EXCEPT ![p] =
                Res("unlock_request", r, usr[p], TRUE, requests[r])]
  /\ UNCHANGED <<requesters, user_votes, clock, txVars, feedVars, ghostVars>>

\* the patch handleMarkPlayed sends: one UPDATE ... WHERE id = id
PlayedPatchSplit(row) ==
  [row EXCEPT !.is_played = TRUE, !.status = "played"]

PlayedPatch(row) ==
  [row EXCEPT !.is_played = TRUE, !.is_locked = FALSE, !.status = "played"]

\* handleMarkPlayed(id); fails when the update returns no row
handleMarkPlayed(p, r) ==
  /\ Begin(p, "idle", r, usr[p], NoTmp)
  /\ ~LockedByOther(p, r)
  /\ requests' = [requests EXCEPT ![r] =
                    IF @.exists THEN PlayedPatch(@) ELSE @]
  /\ Emit(IF requests[r].exists THEN 1 ELSE 0)
  /\ res' = [res EXCEPT ![p] =
                Res("markPlayed", r, usr[p], requests[r].exists, requests[r])]
  /\ UNCHANGED <<requesters, user_votes, clock, txVars, feedVars, ghostVars>>

\* the patch handleResetQueue of the plain App sends to every row
ResetPatch(row) ==
  [row EXCEPT !.is_played = FALSE, !.is_locked = FALSE, !.status = "pending"]

\* handleResetQueue() of the plain App: one UPDATE of all rows
\* .update({is_played: false, is_locked: false, status: 'pending'}).neq('id', 0)
handleResetQueue_update(p) ==
  /\ Begin(p, "idle", arg[p], usr[p], NoTmp)
  /\ \A r \in ReqIds : requests[r].exists => ~LockedByOther(p, r)
  /\ requests' = [r \in ReqIds |->
                    IF requests[r].exists THEN ResetPatch(requests[r])
                    ELSE requests[r]]
  /\ Emit(Cardinality({r \in ReqIds : requests[r].exists}))
  /\ res' = [res EXCEPT ![p] =
                Res("resetQueue", arg[p], usr[p], TRUE, requests[arg[p]])]
  /\ UNCHANGED <<requesters, user_votes, clock, txVars, feedVars, ghostVars>>

handleResetQueue_noCascade(p) ==
  /\ Begin(p, "idle", arg[p], usr[p], NoTmp)
  /\ \A r \in ReqIds : requests[r].exists => ~LockedByOther(p, r)
  /\ requests' = [r \in ReqIds |-> NoRow]
  /\ Emit(Cardinality({r \in ReqIds : requests[r].exists}))
  /\ res' = [res EXCEPT ![p] =
                Res("resetQueue", arg[p], usr[p], TRUE, requests[arg[p]])]
  /\ optimisticRequests' = [optimisticRequests EXCEPT ![p] = {}]
  /\ UNCHANGED <<requesters, user_votes, clock, txVars, feedVars, ghostVars,
                 uiRequests, optimisticVotes, appVotes, votingStates, timers,
                 dateNow, rendered>>

\* handleResetQueue() of the real-time App: .delete().neq('id', 0) removes
\* every request, and by ON DELETE CASCADE its requesters and votes; then
\* setOptimisticRequests(new Map())
handleResetQueue(p) ==
  /\ Begin(p, "idle", arg[p], usr[p], NoTmp)
  /\ \A r \in ReqIds : requests[r].exists => ~LockedByOther(p, r)
  /\ requests' = [r \in ReqIds |-> NoRow]
  /\ requesters' = [r \in ReqIds |-> <<>>]
  /\ user_votes' = {}
  /\ Emit(Cardinality({r \in ReqIds : requests[r].exists}))
  /\ res' = [res EXCEPT ![p] =
                Res("resetQueue", arg[p], usr[p], TRUE, requests[arg[p]])]
  /\ optimisticRequests' = [optimisticRequests EXCEPT ![p] = {}]
  /\ UNCHANGED <<clock, txVars, feedVars, ghostVars, uiRequests,
                 optimisticVotes, appVotes, votingStates, timers, dateNow,
                 rendered>>

\* -------------------------------------------------- add_vote procedure
VoteLabels == {"vote_played", "vote_exists", "vote_insert", "vote_update",
               "vote_commit"}

\* user_votes rows of request r
RowsOf(r) == {v \in user_votes : v[1] = r}

Outcome(p, op, ok) ==
  [proc |-> p, n |-> calls[p], op |-> op, id |-> arg[p], user |-> usr[p],
   ok |-> ok]

\* the procedure returns without having written: nothing to commit
add_vote_return(p, ok) ==
  /\ TxClear(p)
  /\ Finish(p, Res("add_vote", arg[p], usr[p], ok, requests[arg[p]]))
  /\ hist' = hist \cup {Outcome(p, "add_vote", ok)}

\* UserFrontend.handleVote / KioskPage.handleVote:
\* rpc('add_vote', {p_request_id, p_user_id})
add_vote_call(p, r, u) ==
  /\ Begin(p, "vote_played", r, u, NoTmp)
  /\ UNCHANGED <<requests, requesters, user_votes, clock, res, txVars,
                 feedVars, evq, ghostVars>>

\* SELECT requests.is_played INTO is_played ...; IF is_played THEN RETURN FALSE
add_vote_is_played(p) ==
  /\ pc[p] = "vote_played"
  /\ IF View(p, arg[p]).exists /\ View(p, arg[p]).is_played
       THEN /\ add_vote_return(p, FALSE)
            /\ UNCHANGED <<votes0, quota>>
       ELSE /\ pc' = [pc EXCEPT ![p] = "vote_exists"]
            /\ UNCHANGED <<res, txVars, ghostVars>>
  /\ UNCHANGED <<requests, requesters, user_votes, clock, arg, usr, tmp,
                 calls, feedVars, evq>>

\* SELECT EXISTS(SELECT 1 FROM user_votes WHERE request_id = .. AND user_id = ..)
VoteExists(r, u) == \E v \in user_votes : v[1] = r /\ v[2] = u

\* IF vote_exists THEN RETURN FALSE
add_vote_vote_exists(p) ==
  /\ pc[p] = "vote_exists"
  /\ IF VoteExists(arg[p], usr[p])
       THEN /\ add_vote_return(p, FALSE)
            /\ UNCHANGED <<votes0, quota>>
       ELSE /\ pc' = [pc EXCEPT ![p] = "vote_insert"]
            /\ UNCHANGED <<res, txVars, ghostVars>>
  /\ UNCHANGED <<requests, requesters, user_votes, clock, arg, usr, tmp,
                 calls, feedVars, evq>>

NoUniqueViolation(r, u) == FALSE

\* UNIQUE(request_id, user_id) on user_votes
UniqueViolation(r, u) == \E v \in user_votes : v[1] = r /\ v[2] = u

\* request_id uuid REFERENCES requests(id)
ForeignKeyViolation(r) == ~requests[r].exists

\* INSERT INTO user_votes (request_id, user_id, created_at); an insert of a key
\* another open transaction has inserted waits for that transaction.
\* EXCEPTION WHEN OTHERS THEN RETURN FALSE
add_vote_insert(p) ==
  /\ pc[p] = "vote_insert"
  /\ \A q \in Procs \ {p} :
       \A v \in pendVotes[q] : ~(v[1] = arg[p] /\ v[2] = usr[p])
  /\ IF UniqueViolation(arg[p], usr[p]) \/ ForeignKeyViolation(arg[p])
       THEN /\ add_vote_return(p, FALSE)
            /\ UNCHANGED <<votes0, quota>>
       ELSE /\ pendVotes' = [pendVotes EXCEPT ![p] =
                               @ \cup {<<arg[p], usr[p], <<p, calls[p]>> >>}]
            /\ pc' = [pc EXCEPT ![p] = "vote_update"]
            /\ UNCHANGED <<res, held, pend, ghostVars>>
  /\ UNCHANGED <<requests, requesters, user_votes, clock, arg, usr, tmp,
                 calls, feedVars, evq>>

votes_unchanged(v) == v

\* COALESCE(votes, 0) + 1
votes_plus_1(v) == v + 1

\* UPDATE requests SET votes = COALESCE(votes, 0) + 1 WHERE id = p_request_id
add_vote_update(p) ==
  /\ pc[p] = "vote_update"
  /\ ~LockedByOther(p, arg[p])
  /\ pend' = [pend EXCEPT ![p][arg[p]] =
                [View(p, arg[p]) EXCEPT !.votes = votes_plus_1(@)]]
  /\ held' = [held EXCEPT ![p] = @ \cup {arg[p]}]
  /\ pc' = [pc EXCEPT ![p] = "vote_commit"]
  /\ UNCHANGED <<requests, requesters, user_votes, clock, arg, usr, tmp, res,
                 pendVotes, calls, feedVars, evq, ghostVars>>

\* RETURN TRUE; the transaction commits
add_vote_commit(p) ==
  /\ pc[p] = "vote_commit"
  /\ requests' = Committed(p)
  /\ user_votes' = user_votes \cup pendVotes[p]
  /\ Emit(Cardinality(held[p]))
  /\ add_vote_return(p, TRUE)
  /\ UNCHANGED <<requesters, clock, arg, usr, tmp, calls, feedVars, votes0, quota>>

\* ---------------------------------------------------- change feed consumer
MaxInflight == 2

Existing == {r \in ReqIds : requests[r].exists}

\* .order('created_at', { ascending: false })
RECURSIVE OrderByCreatedDesc(_)
OrderByCreatedDesc(S) ==
  IF S = {} THEN <<>>
  ELSE LET m == CHOOSE r \in S :
                  \A q \in S : requests[q].created_at <= requests[r].created_at
       IN <<m>> \o OrderByCreatedDesc(S \ {m})

\* formattedRequests: one SongRequest per row, with its requesters
formattedRequests(r) ==
  [id |-> r, title |-> requests[r].title, votes |-> requests[r].votes,
   status |-> requests[r].status, isLocked |-> requests[r].is_locked,
   isPlayed |-> requests[r].is_played,
   createdAt |-> requests[r].created_at, requesters |-> requesters[r]]

\* the result of the query reconnectRequests sends
requestsData ==
  LET ids == OrderByCreatedDesc(Existing)
  IN [i \in 1..Len(ids) |-> formattedRequests(ids[i])]

\* requests.find(r => r.id === id)?.votes || 0
currentRequestVotes(p, id) ==
  IF \E i \in 1..Len(list[p]) : list[p][i].id = id
    THEN (list[p][CHOOSE i \in 1..Len(list[p]) : list[p][i].id = id]).votes
    ELSE 0

\* reconnectRequests(), up to its await: the query is sent and answered; the
\* response is on its way back
reconnectRequests(p) ==
  /\ Len(inflight[p]) < MaxInflight
  /\ inflight' = [inflight EXCEPT ![p] = Append(@, requestsData)]

\* a postgres_changes event on requests or requesters reaches the channel
\* callback; every branch of the callback calls reconnectRequests()
postgres_changes(p) ==
  /\ evq[p] > 0
  /\ evq' = [evq EXCEPT ![p] = @ - 1]
  /\ reconnectRequests(p)
  /\ UNCHANGED <<requests, requesters, user_votes, clock, pc, arg, usr, tmp,
                 res, txVars, calls, list, subscribed, ghostVars>>

Remove(q, i) == [k \in 1..(Len(q) - 1) |-> IF k < i THEN q[k] ELSE q[k + 1]]

\* reconnectRequests(), after its await: setRequests(formattedRequests)
reconnectRequests_return(p, i) ==
  /\ i \in 1..Len(inflight[p])
  /\ list' = [list EXCEPT ![p] = inflight[p][i]]
  /\ inflight' = [inflight EXCEPT ![p] = Remove(@, i)]
  /\ UNCHANGED <<requests, requesters, user_votes, clock, pc, arg, usr, tmp,
                 res, txVars, calls, evq, subscribed, ghostVars>>

\* the subscription effect, run once after the first render: the initial
\* fetch is started and not awaited, then the channel is subscribed
subscription_effect(p) ==
  /\ ~subscribed[p]
  /\ inflight[p] = <<>>
  /\ reconnectRequests(p)
  /\ subscribed' = [subscribed EXCEPT ![p] = TRUE]
  /\ UNCHANGED <<requests, requesters, user_votes, clock, pc, arg, usr, tmp,
                 res, txVars, calls, list, evq, ghostVars>>

\* the timer the status callback starts on CHANNEL_ERROR
UnsubscribeTimer ==
  [fn |-> "unsubscribe", key |-> 0, call |-> 0, data |-> ""]

\* the status callback of subscribe() is called with CHANNEL_ERROR: the
\* channel delivers no more events; setTimeout(() => unsubscribe(), ...)
subscribe_CHANNEL_ERROR(p) ==
  /\ subscribed[p]
  /\ subscribed' = [subscribed EXCEPT ![p] = FALSE]
  /\ timers' = [timers EXCEPT ![p] = @ \cup {UnsubscribeTimer}]
  /\ UNCHANGED <<requests, requesters, user_votes, clock, pc, arg, usr, tmp,
                 res, txVars, calls, list, inflight, evq, ghostVars,
                 optimisticRequests, uiRequests, optimisticVotes, appVotes,
                 votingStates, dateNow, rendered>>

\* the status callback is called with SUBSCRIBED after an error, when the
\* realtime client has rejoined the channel by itself before the timer ran:
\* the callback only logs
subscribe_SUBSCRIBED(p) ==
  /\ ~subscribed[p]
  /\ UnsubscribeTimer \in timers[p]
  /\ subscribed' = [subscribed EXCEPT ![p] = TRUE]
  /\ UNCHANGED <<requests, requesters, user_votes, clock, pc, arg, usr, tmp,
                 res, txVars, calls, list, inflight, evq, ghostVars,
                 overlayVars>>

\* the timer of the CHANNEL_ERROR branch runs: requestsChannel.unsubscribe();
\* the effect depends on [reconnectRequests] only and does not run again
timer_unsubscribe(p) ==
  /\ UnsubscribeTimer \in timers[p]
  /\ timers' = [timers EXCEPT ![p] = @ \ {UnsubscribeTimer}]
  /\ subscribed' = [subscribed EXCEPT ![p] = FALSE]
  /\ UNCHANGED <<requests, requesters, user_votes, clock, pc, arg, usr, tmp,
                 res, txVars, calls, list, inflight, evq, ghostVars,
                 optimisticRequests, uiRequests, optimisticVotes, appVotes,
                 votingStates, dateNow, rendered>>

\* ------------------------------------------------- client vote handler
\* handleUserVote(id, true), up to its await:
\* newVoteCount = (requests.find(r => r.id === id)?.votes || 0) + 1
handleKioskVote(p, r) ==
  /\ Begin(p, "kiosk_update", r, KioskId(p, calls[p] + 1),
           [NoTmp EXCEPT !.n = currentRequestVotes(p, r) + 1])
  /\ UNCHANGED <<requests, requesters, user_votes, clock, res, txVars,
                 feedVars, evq, ghostVars>>

\* supabase.from('requests').update({votes: newVoteCount}).eq('id', id)
handleUserVote_update(p) ==
  /\ ~LockedByOther(p, arg[p])
  /\ requests' = [requests EXCEPT ![arg[p]] =
                    IF @.exists THEN [@ EXCEPT !.votes = tmp[p].n] ELSE @]
  /\ Emit(IF requests[arg[p]].exists THEN 1 ELSE 0)

handleUserVote_return(p, ok) ==
  /\ Finish(p, Res("handleUserVote", arg[p], usr[p], ok, requests[arg[p]]))
  /\ hist' = hist \cup {Outcome(p, "handleUserVote", ok)}

\* kiosk branch: the update, then success = true
handleKioskVote_update(p) ==
  /\ pc[p] = "kiosk_update"
  /\ handleUserVote_update(p)
  /\ handleUserVote_return(p, TRUE)
  /\ UNCHANGED <<requesters, user_votes, clock, arg, usr, tmp, txVars, calls,
                 feedVars, votes0, quota>>

\* handleUserVote(id, false), up to its first await
handleVoteRequest(p, r, u) ==
  /\ Begin(p, "named_check", r, u,
           [NoTmp EXCEPT !.n = currentRequestVotes(p, r) + 1])
  /\ UNCHANGED <<requests, requesters, user_votes, clock, res, txVars,
                 feedVars, evq, ghostVars>>

\* select('id') from user_votes .eq(request_id).eq(user_id).maybeSingle();
\* if (existingVote) success = false
handleVoteRequest_existingVote(p) ==
  /\ pc[p] = "named_check"
  /\ IF VoteExists(arg[p], usr[p])
       THEN /\ handleUserVote_return(p, FALSE)
            /\ UNCHANGED <<votes0, quota>>
       ELSE /\ pc' = [pc EXCEPT ![p] = "named_update"]
            /\ UNCHANGED <<res, ghostVars>>
  /\ UNCHANGED <<requests, requesters, user_votes, clock, arg, usr, tmp,
                 txVars, calls, feedVars, evq>>

\* the votes update of the logged-in branch
handleVoteRequest_update(p) ==
  /\ pc[p] = "named_update"
  /\ handleUserVote_update(p)
  /\ pc' = [pc EXCEPT ![p] = "named_insert"]
  /\ UNCHANGED <<requesters, user_votes, clock, arg, usr, tmp, res, txVars,
                 calls, feedVars, ghostVars>>

\* insert into user_votes; an insertError is only logged; success = true
handleVoteRequest_insert(p) ==
  /\ pc[p] = "named_insert"
  /\ \A q \in Procs \ {p} :
       \A v \in pendVotes[q] : ~(v[1] = arg[p] /\ v[2] = usr[p])
  /\ user_votes' =
       IF UniqueViolation(arg[p], usr[p]) \/ ForeignKeyViolation(arg[p])
         THEN user_votes
         ELSE user_votes \cup {<<arg[p], usr[p], <<p, calls[p]>> >>}
  /\ handleUserVote_return(p, TRUE)
  /\ UNCHANGED <<requests, requesters, clock, arg, usr, tmp, txVars, calls,
                 feedVars, evq, votes0, quota>>

\* ------------------------------------------------------ submit handlers
AllIdle == \A q \in Procs : pc[q] = "idle"

Unplayed(t) ==
  {r \in ReqIds : requests[r].exists /\ ~requests[r].is_played
                  /\ requests[r].title = t}

UnplayedIgnoringCase(t) ==
  {r \in ReqIds : requests[r].exists /\ ~requests[r].is_played
                  /\ Lower(requests[r].title) = Lower(t)}

Pick(S) == IF S = {} THEN 0 ELSE CHOOSE r \in S : TRUE

\* what submit is called on: the title and the unplayed requests holding it
Called(t) ==
  [NoTmp EXCEPT !.title = t, !.match = Pick(Unplayed(t)),
                !.matchCI = Pick(UnplayedIgnoringCase(t))]

handleSubmitRequest_return(p, ok, made, joined) ==
  Finish(p, [Res("handleSubmitRequest", joined, usr[p], ok, requests[arg[p]])
               EXCEPT !.match = tmp[p].match, !.matchCI = tmp[p].matchCI,
                      !.made = made,
                      !.nreq = IF joined = 0 THEN 0
                               ELSE Len(requesters'[joined])])

\* id uuid PRIMARY KEY DEFAULT gen_random_uuid(), created_at now()
InsertRequestOncePerTitle(t) ==
  IF Unplayed(t) # {}
    THEN UNCHANGED <<clock, requests>> /\ Emit(0)
    ELSE /\ clock < MaxReq
         /\ clock' = clock + 1
         /\ requests' = [requests EXCEPT ![clock + 1] = NewRow(t, clock + 1)]
         /\ Emit(1)

InsertRequest(t) ==
  /\ clock < MaxReq
  /\ clock' = clock + 1
  /\ requests' = [requests EXCEPT ![clock + 1] = NewRow(t, clock + 1)]
  /\ Emit(1)

\* INSERT INTO requesters (request_id, name, ...)
InsertRequesterAll(r, n) ==
  /\ requesters' = [x \in ReqIds |-> Append(requesters[x], n)]
  /\ Emit(1)

InsertRequester(r, n) ==
  /\ requesters' = [requesters EXCEPT ![r] = Append(@, n)]
  /\ Emit(1)

\* App.handleSubmitRequest(data) of src/App.tsx, up to its first await; tid
\* is its tempId and uid the tempId of the page component that called it
handleSubmitRequest_called(p, t, u, tid, uid) ==
  /\ Begin(p, "submit_lookup", 1, u,
           [Called(t) EXCEPT !.tempId = tid, !.uiTempId = uid,
                             !.action = Len(toasts[p]) + 1, !.attempt = 1])
  /\ UNCHANGED <<requests, requesters, user_votes, clock, res, txVars,
                 feedVars, evq, ghostVars>>

\* its effect on the store and on the handler's position
handleSubmitRequest(p, t, u) == handleSubmitRequest_called(p, t, u, 0, 0)

\* .select('id, title').eq('title', data.title).eq('is_played', false)
\* .maybeSingle(): the row when exactly one matches, else no data (the
\* PGRST116 error of several matches is ignored)
existingRequest(t) ==
  IF Cardinality(Unplayed(t)) = 1 THEN Pick(Unplayed(t)) ELSE 0

handleSubmitRequest_existingRequest(p) ==
  /\ pc[p] = "submit_lookup"
  /\ tmp' = [tmp EXCEPT ![p].found = existingRequest(tmp[p].title)]
  /\ pc' = [pc EXCEPT ![p] =
              IF existingRequest(tmp[p].title) # 0 THEN "submit_join" ELSE "submit_insert"]
  /\ UNCHANGED <<requests, requesters, user_votes, clock, arg, usr, res,
                 txVars, calls, feedVars, evq, ghostVars>>

\* if (existingRequest): insert the requester for the existing request
handleSubmitRequest_join(p) ==
  /\ pc[p] = "submit_join"
  /\ InsertRequester(tmp[p].found, usr[p][1])
  /\ handleSubmitRequest_return(p, TRUE, 0, tmp[p].found)
  /\ UNCHANGED <<requests, user_votes, clock, arg, usr, tmp, txVars, calls,
                 feedVars, ghostVars>>

\* else: insert the new request ...
handleSubmitRequest_newRequest(p) ==
  /\ pc[p] = "submit_insert"
  /\ InsertRequest(tmp[p].title)
  /\ tmp' = [tmp EXCEPT ![p].made = clock + 1]
  /\ pc' = [pc EXCEPT ![p] = "submit_requester"]
  /\ UNCHANGED <<requesters, user_votes, arg, usr, res, txVars, calls,
                 feedVars, ghostVars>>

\* ... and its requester; return true
handleSubmitRequest_requester(p) ==
  /\ pc[p] = "submit_requester"
  /\ InsertRequester(tmp[p].made, usr[p][1])
  /\ handleSubmitRequest_return(p, TRUE, tmp[p].made, tmp[p].made)
  /\ UNCHANGED <<requests, user_votes, clock, arg, usr, tmp, txVars, calls,
                 feedVars, ghostVars>>

\* the older App.handleSubmitRequest(data), up to its first await
handleSubmitRequest_v1(p, t, u) ==
  /\ Begin(p, "old_insert", 1, u, Called(t))
  /\ UNCHANGED <<requests, requesters, user_votes, clock, res, txVars,
                 feedVars, evq, ghostVars>>

\* supabase.from('requests').insert([{id: requestId, title: data.title, ...}])
handleSubmitRequest_v1_insert(p) ==
  /\ pc[p] = "old_insert"
  /\ InsertRequest(tmp[p].title)
  /\ tmp' = [tmp EXCEPT ![p].made = clock + 1]
  /\ pc' = [pc EXCEPT ![p] = "old_requester"]
  /\ UNCHANGED <<requesters, user_votes, arg, usr, res, txVars, calls,
                 feedVars, ghostVars>>

\* supabase.from('requesters').insert([{request_id: requestId, ...}])
handleSubmitRequest_v1_requester(p) ==
  /\ pc[p] = "old_requester"
  /\ InsertRequester(tmp[p].made, usr[p][1])
  /\ handleSubmitRequest_return(p, TRUE, tmp[p].made, tmp[p].made)
  /\ UNCHANGED <<requests, user_votes, clock, arg, usr, tmp, txVars, calls,
                 feedVars, ghostVars>>

\* ---------------------------------------------------- optimistic overlay
\* `temp_${Date.now()}`; the ids the store hands out are the positive ones
TempId(t) == 0 - t

\* id.startsWith('temp_')
IsTemp(id) == id < 0

optimisticRequest_locked(id, t, name, at) ==
  [id |-> id, title |-> t, votes |-> 0, status |-> "pending",
   isLocked |-> TRUE, isPlayed |-> FALSE, createdAt |-> at,
   requesters |-> <<name>>]

\* the optimisticRequest object the submit handlers build
optimisticRequest(id, t, name, at) ==
  [id |-> id, title |-> t, votes |-> 0, status |-> "pending",
   isLocked |-> FALSE, isPlayed |-> FALSE, createdAt |-> at,
   requesters |-> <<name>>]

\* new Map([...prev, [id, entry]])
MapSet(m, e) == {x \in m : x.id # e.id} \cup {e}

\* newMap.delete(id)
MapDelete(m, id) == {x \in m : x.id # id}

\* Array.from(map.values()): insertion order, which is the order of the
\* Date.now() values the keys were made from
RECURSIVE MapValues(_)
MapValues(m) ==
  IF m = {} THEN <<>>
  ELSE LET e == CHOOSE x \in m : \A y \in m : y.id <= x.id
       IN <<e>> \o MapValues(m \ {e})

\* new Set(realRequests.map(r => r.title.toLowerCase()))
realTitles(reqs) == {Lower(reqs[i].title) : i \in 1..Len(reqs)}

\* realTitles.has(req.title?.toLowerCase() || '')
hasRealVersion(reqs, e) == Lower(e.title) \in realTitles(reqs)

\* App.mergedRequests of src/App.tsx: the real requests, then the optimistic
\* requests without a real version, without the played ones
mergedRequests(reqs, opt) ==
  LET valid == SelectSeq(MapValues(opt),
                         LAMBDA e : IsTemp(e.id) /\ ~hasRealVersion(reqs, e))
      validOptimisticRequests ==
        [i \in 1..Len(valid) |->
           [valid[i] EXCEPT !.isPlayed = FALSE, !.status = "pending"]]
  IN SelectSeq(reqs \o validOptimisticRequests, LAMBDA r : ~r.isPlayed)

\* optimisticVotes.get(req.id) ?? req.votes ?? 0
votesShown(req, votes) ==
  IF ~IsTemp(req.id) /\ votes[req.id] # Undefined
    THEN votes[req.id] ELSE req.votes

\* UserFrontend.mergedRequests: the requests prop with the optimistic vote
\* values, then the component's optimistic requests
UserFrontend_mergedRequests(reqs, votes, opt) ==
  [i \in 1..Len(reqs) |-> [reqs[i] EXCEPT !.votes = votesShown(reqs[i], votes)]]
    \o SelectSeq(MapValues(opt), LAMBDA e : IsTemp(e.id))

\* KioskPage.mergedRequests: the same, without the played ones
KioskPage_mergedRequests(reqs, votes, opt) ==
  SelectSeq(UserFrontend_mergedRequests(reqs, votes, opt),
            LAMBDA r : ~r.isPlayed)

\* UserFrontend.lockedRequest: each request of the prop overlaid with the
\* component's optimistic request of the same id, then
\* find(r => r.isLocked && !r.isPlayed); <<>> when there is none
UserFrontend_lockedRequest(reqs, votes, opt) ==
  LET over(req) ==
        IF \E e \in opt : e.id = req.id
          THEN CHOOSE e \in opt : e.id = req.id ELSE req
      merged == [i \in 1..Len(reqs) |->
                   [over(reqs[i]) EXCEPT !.votes = votesShown(reqs[i], votes)]]
  IN SelectSeq(merged, LAMBDA r : r.isLocked /\ ~r.isPlayed)

\* a projection holds a request with this id
Shows(proj, id) == \E i \in 1..Len(proj) : proj[i].id = id

\* what client p's App hands to its page component, and what the page
\* component hands to its lists
appProjection(p) == mergedRequests(list[p], optimisticRequests[p])
pageProjection(p) ==
  UserFrontend_mergedRequests(appProjection(p), optimisticVotes[p],
                              uiRequests[p])

\* the clients that use the request page
Audience == {1}

\* the profile set up on client p
currentUser(p) == Named(IF p = 1 THEN "alice" ELSE "bob")

\* UserFrontend.handleRequestSong(song), up to its await: the component's
\* optimistic request, then onSubmitRequest(requestData), which runs
\* App.handleSubmitRequest up to its first await; d is the time that passes
\* between the two Date.now() calls
handleRequestSong(p, t, u, d) ==
  /\ handleSubmitRequest_called(p, t, u, TempId(dateNow + d), TempId(dateNow))
  /\ uiRequests' =
       [uiRequests EXCEPT ![p] =
          MapSet(@, optimisticRequest(TempId(dateNow), t, u[1], dateNow))]
  /\ optimisticRequests' =
       [optimisticRequests EXCEPT ![p] =
          MapSet(@, optimisticRequest(TempId(dateNow + d), t, u[1],
                                      dateNow + d))]
  /\ dateNow' = dateNow + d + 1
  /\ UNCHANGED <<optimisticVotes, appVotes, votingStates, timers, rendered>>

\* if (success): setTimeout(() => delete tempId, 2000)
handleRequestSong_success(p) ==
  /\ timers' = [timers EXCEPT ![p] =
                  @ \cup {[fn |-> "deleteRequest", key |-> tmp[p].uiTempId,
                           call |-> calls[p], data |-> ""]}]
  /\ UNCHANGED <<optimisticRequests, uiRequests, optimisticVotes, appVotes,
                 votingStates, dateNow, rendered>>

SubmitLabels ==
  {"submit_lookup", "submit_join", "submit_insert", "submit_requester"}

\* a store call of App.handleSubmitRequest fails: the catch block deletes the
\* App's optimistic request and returns false; the component then deletes its
\* own
handleSubmitRequest_catch(p) ==
  /\ pc[p] \in SubmitLabels
  /\ Finish(p, [Res("handleSubmitRequest", 0, usr[p], FALSE, NoRow)
                  EXCEPT !.made = tmp[p].made])
  /\ optimisticRequests' =
       [optimisticRequests EXCEPT ![p] = MapDelete(@, tmp[p].tempId)]
  /\ uiRequests' = [uiRequests EXCEPT ![p] = MapDelete(@, tmp[p].uiTempId)]
  /\ UNCHANGED <<requests, requesters, user_votes, clock, arg, usr, tmp,
                 txVars, calls, feedVars, evq, ghostVars, optimisticVotes,
                 appVotes, votingStates, timers, dateNow, rendered>>

\* the 2000 ms timer of handleRequestSong runs
timer_deleteRequest(p, tm) ==
  /\ tm \in timers[p]
  /\ tm.fn = "deleteRequest"
  /\ timers' = [timers EXCEPT ![p] = @ \ {tm}]
  /\ uiRequests' = [uiRequests EXCEPT ![p] = MapDelete(@, tm.key)]
  /\ UNCHANGED <<requests, requesters, user_votes, clock, pc, arg, usr, tmp,
                 res, txVars, calls, quota, feedVars, evq, hist, votes0,
                 optimisticRequests, optimisticVotes, appVotes, votingStates,
                 dateNow, rendered>>

\* the 100 ms timer App.mergedRequests starts for an optimistic request that
\* has a real version runs
mergedRequests_cleanup(p, e) ==
  /\ e \in optimisticRequests[p]
  /\ IsTemp(e.id)
  /\ hasRealVersion(list[p], e)
  /\ optimisticRequests' = [optimisticRequests EXCEPT ![p] = MapDelete(@, e.id)]
  /\ UNCHANGED <<requests, requesters, user_votes, clock, pc, arg, usr, tmp,
                 res, txVars, calls, quota, feedVars, evq, hist, votes0,
                 uiRequests, optimisticVotes, appVotes, votingStates, timers,
                 dateNow, rendered>>

\* ------------------------------------------------- submit outcomes, retries
MAX_REQUEST_RETRIES == 3

\* toast.success / toast.error shown n times for submit action a of client p
toast(p, a, n) == toasts' = [toasts EXCEPT ![p][a] = @ + n]

\* the user requests a song on the request page: a new submit action
handleRequestSong_action(p, t, d) ==
  /\ handleRequestSong(p, t, currentUser(p), d)
  /\ toasts' = [toasts EXCEPT ![p] = Append(@, 0)]
  /\ UNCHANGED <<requestRetriesRef, guardVars>>

\* App.handleSubmitRequest(data) called from a request form, up to its first
\* await: a new submit action, with the App's optimistic request
handleSubmitRequest_action(p, t) ==
  /\ handleSubmitRequest_called(p, t, currentUser(p), TempId(dateNow), 0)
  /\ optimisticRequests' =
       [optimisticRequests EXCEPT ![p] =
          MapSet(@, optimisticRequest(TempId(dateNow), t, currentUser(p)[1],
                                      dateNow))]
  /\ dateNow' = dateNow + 1
  /\ toasts' = [toasts EXCEPT ![p] = Append(@, 0)]
  /\ UNCHANGED <<uiRequests, optimisticVotes, appVotes, votingStates, timers,
                 rendered, requestRetriesRef, guardVars>>

\* the user requests a song while requestInProgressRef.current is set: the
\* component adds its optimistic request, App.handleSubmitRequest shows
\* 'A request is already being processed' and returns false, the component
\* deletes its optimistic request
handleRequestSong_inProgress(p, t) ==
  /\ pc[p] \in SubmitLabels
  /\ toasts' = [toasts EXCEPT ![p] = Append(@, 1)]
  /\ dateNow' = dateNow + 1
  /\ UNCHANGED <<requests, requesters, user_votes, clock, pc, arg, usr, tmp,
                 res, txVars, calls, feedVars, evq, ghostVars,
                 optimisticRequests, uiRequests, optimisticVotes, appVotes,
                 votingStates, timers, rendered, requestRetriesRef,
                 guardVars>>

\* the last store call of App.handleSubmitRequest has succeeded:
\* requestRetriesRef.current = 0, toast.success, return true; the component,
\* when it is the caller, starts its timer and shows its own toast.success
handleSubmitRequest_succeeded(p) ==
  /\ requestRetriesRef' = [requestRetriesRef EXCEPT ![p] = 0]
  /\ UNCHANGED guardVars
  /\ IF tmp[p].uiTempId # 0
       THEN /\ handleRequestSong_success(p)
            /\ toast(p, tmp[p].action, 2)
       ELSE /\ UNCHANGED overlayVars
            /\ toast(p, tmp[p].action, 1)

\* a store call fails with an error that is not a network error: the catch
\* block of handleSubmitRequest_catch, toast.error, requestRetriesRef = 0
handleSubmitRequest_catch_other(p) ==
  /\ handleSubmitRequest_catch(p)
  /\ toast(p, tmp[p].action, 1)
  /\ requestRetriesRef' = [requestRetriesRef EXCEPT ![p] = 0]
  /\ UNCHANGED guardVars

\* a store call fails with a network error ('Failed to fetch'): the
\* optimistic requests are deleted, reconnectRequests() is called, and while
\* requestRetriesRef.current < MAX_REQUEST_RETRIES the counter is raised and
\* the retry timer started with no toast; else toast.error and the counter
\* is reset. Both ways the handler returns false.
handleSubmitRequest_catch_network(p) ==
  /\ pc[p] \in SubmitLabels
  /\ Finish(p, [Res("handleSubmitRequest", 0, usr[p], FALSE, NoRow)
                  EXCEPT !.made = tmp[p].made])
  /\ optimisticRequests' =
       [optimisticRequests EXCEPT ![p] = MapDelete(@, tmp[p].tempId)]
  /\ uiRequests' = [uiRequests EXCEPT ![p] = MapDelete(@, tmp[p].uiTempId)]
  /\ reconnectRequests(p)
  /\ IF requestRetriesRef[p] < MAX_REQUEST_RETRIES
       THEN /\ requestRetriesRef' = [requestRetriesRef EXCEPT ![p] = @ + 1]
            /\ timers' = [timers EXCEPT ![p] =
                            @ \cup {[fn |-> "retrySubmit",
                                     key |-> tmp[p].attempt + 1,
                                     call |-> tmp[p].action,
                                     data |-> tmp[p].title]}]
            /\ UNCHANGED toasts
       ELSE /\ requestRetriesRef' = [requestRetriesRef EXCEPT ![p] = 0]
            /\ toast(p, tmp[p].action, 1)
            /\ UNCHANGED timers
  /\ UNCHANGED guardVars
  /\ UNCHANGED <<requests, requesters, user_votes, clock, arg, usr, tmp,
                 txVars, calls, list, subscribed, evq, ghostVars,
                 optimisticVotes, appVotes, votingStates, dateNow, rendered>>

\* the retry timer runs: requestInProgressRef.current = false and
\* handleSubmitRequest(data) is called again, up to its first await
timer_retrySubmit(p, tm) ==
  /\ tm \in timers[p]
  /\ tm.fn = "retrySubmit"
  /\ Begin(p, "submit_lookup", 1, currentUser(p),
           [Called(tm.data) EXCEPT !.tempId = TempId(dateNow),
                                   !.action = tm.call, !.attempt = tm.key])
  /\ timers' = [timers EXCEPT ![p] = @ \ {tm}]
  /\ optimisticRequests' =
       [optimisticRequests EXCEPT ![p] =
          MapSet(@, optimisticRequest(TempId(dateNow), tm.data,
                                      currentUser(p)[1], dateNow))]
  /\ dateNow' = dateNow + 1
  /\ UNCHANGED <<requests, requesters, user_votes, clock, res, txVars,
                 feedVars, evq, ghostVars, uiRequests, optimisticVotes,
                 appVotes, votingStates, rendered, notifyVars>>

\* ------------------------------------------------------ optimistic votes
\* requests.find(r => r.id === requestId)?.votes, 0 when it is not in the prop
propVotes(reqs, id) ==
  IF \E i \in 1..Len(reqs) : reqs[i].id = id
    THEN (reqs[CHOOSE i \in 1..Len(reqs) : reqs[i].id = id]).votes
    ELSE 0

\* KioskPage.handleVote / UserFrontend.handleVote, up to the await: the
\* request is one of those shown; currentVotes =
\* optimisticVotes.get(requestId) ?? currentRequest?.votes ?? 0 is put into
\* optimisticVotes plus one, then rpc('add_vote')
handleVote(p, r, u) ==
  /\ r \notin votingStates[p]
  /\ Shows(KioskPage_mergedRequests(appProjection(p), optimisticVotes[p],
                                    uiRequests[p]), r)
  /\ add_vote_call(p, r, u)
  /\ votingStates' = [votingStates EXCEPT ![p] = @ \cup {r}]
  /\ optimisticVotes' =
       [optimisticVotes EXCEPT ![p][r] =
          (IF @ # Undefined THEN @ ELSE propVotes(appProjection(p), r)) + 1]
  /\ UNCHANGED <<optimisticRequests, uiRequests, appVotes, timers, dateNow,
                 rendered>>

\* handleVote after the await, when the step of add_vote it is joined to was
\* the last one: data === true starts the 1500 ms timer, anything else
\* deletes the optimistic value; finally the request leaves votingStates
handleVote_then(p) ==
  /\ IF pc'[p] # "idle"
       THEN UNCHANGED <<timers, optimisticVotes, votingStates>>
       ELSE /\ votingStates' = [votingStates EXCEPT ![p] = @ \ {arg[p]}]
            /\ IF res'[p].ok
                 THEN /\ timers' = [timers EXCEPT ![p] =
                                      @ \cup {[fn |-> "deleteVote",
                                               key |-> arg[p],
                                               call |-> calls[p], data |-> ""]}]
                      /\ UNCHANGED optimisticVotes
                 ELSE /\ optimisticVotes' =
                           [optimisticVotes EXCEPT ![p][arg[p]] = Undefined]
                      /\ UNCHANGED timers
  /\ UNCHANGED <<optimisticRequests, uiRequests, appVotes, dateNow, rendered>>

\* the 1500 ms timer of handleVote runs: newMap.delete(requestId)
timer_deleteVote(p, tm) ==
  /\ tm \in timers[p]
  /\ tm.fn = "deleteVote"
  /\ timers' = [timers EXCEPT ![p] = @ \ {tm}]
  /\ optimisticVotes' = [optimisticVotes EXCEPT ![p][tm.key] = Undefined]
  /\ UNCHANGED <<requests, requesters, user_votes, clock, pc, arg, usr, tmp,
                 res, txVars, calls, quota, feedVars, evq, hist, votes0,
                 optimisticRequests, uiRequests, appVotes, votingStates,
                 dateNow, rendered>>

\* mergedRequests of the older App: optimisticVotes.get(request.id) ??
\* request.votes for every request
App_v1_mergedRequests(reqs, votes) ==
  [i \in 1..Len(reqs) |-> [reqs[i] EXCEPT !.votes = votesShown(reqs[i], votes)]]

\* handleVoteRequest of the older App, up to its first await:
\* originalVotes = optimisticVotes.get(id) || 0, kept in n
handleVoteRequest_v1(p, r) ==
  /\ r \notin votingStates[p]
  /\ Begin(p, "v1_check", r, currentUser(p),
           [NoTmp EXCEPT !.n = IF appVotes[p][r] = Undefined THEN 0
                                ELSE appVotes[p][r]])
  /\ votingStates' = [votingStates EXCEPT ![p] = @ \cup {r}]
  /\ appVotes' = [appVotes EXCEPT ![p][r] =
                    (IF @ = Undefined THEN 0 ELSE @) + 1]
  /\ UNCHANGED <<requests, requesters, user_votes, clock, res, txVars,
                 feedVars, evq, ghostVars, optimisticRequests, uiRequests,
                 optimisticVotes, timers, dateNow, rendered>>

\* catch: newMap.set(id, originalVotes); finally: votingStates.delete(id)
handleVoteRequest_v1_catch(p) ==
  /\ Finish(p, Res("handleVoteRequest_v1", arg[p], usr[p], FALSE,
                   requests[arg[p]]))
  /\ appVotes' = [appVotes EXCEPT ![p][arg[p]] = tmp[p].n]
  /\ votingStates' = [votingStates EXCEPT ![p] = @ \ {arg[p]}]

\* select('id') from user_votes .eq(request_id).eq(user_id).single();
\* if (existingVote) throw new Error('You have already voted for this song')
handleVoteRequest_v1_existingVote(p) ==
  /\ pc[p] = "v1_check"
  /\ IF VoteExists(arg[p], usr[p])
       THEN handleVoteRequest_v1_catch(p)
       ELSE /\ pc' = [pc EXCEPT ![p] = "v1_insert"]
            /\ UNCHANGED <<res, appVotes, votingStates>>
  /\ UNCHANGED <<requests, requesters, user_votes, clock, arg, usr, tmp,
                 txVars, calls, feedVars, evq, ghostVars, optimisticRequests,
                 uiRequests, optimisticVotes, timers, dateNow, rendered>>

\* insert into user_votes; if (insertError) throw insertError
handleVoteRequest_v1_insert(p) ==
  /\ pc[p] = "v1_insert"
  /\ IF UniqueViolation(arg[p], usr[p]) \/ ForeignKeyViolation(arg[p])
       THEN /\ handleVoteRequest_v1_catch(p)
            /\ UNCHANGED user_votes
       ELSE /\ user_votes' =
                 user_votes \cup {<<arg[p], usr[p], <<p, calls[p]>> >>}
            /\ pc' = [pc EXCEPT ![p] = "v1_increment"]
            /\ UNCHANGED <<res, appVotes, votingStates>>
  /\ UNCHANGED <<requests, requesters, clock, arg, usr, tmp, txVars, calls,
                 feedVars, evq, ghostVars, optimisticRequests, uiRequests,
                 optimisticVotes, timers, dateNow, rendered>>

\* the procedure increment_vote(request_id): votes + 1 in one statement
increment_vote(v) == v + 1

\* rpc('increment_vote', {request_id: id}); return true; finally:
\* votingStates.delete(id)
handleVoteRequest_v1_increment(p) ==
  /\ pc[p] = "v1_increment"
  /\ ~LockedByOther(p, arg[p])
  /\ requests' = [requests EXCEPT ![arg[p]] =
                    IF @.exists THEN [@ EXCEPT !.votes = increment_vote(@)]
                    ELSE @]
  /\ Emit(IF requests[arg[p]].exists THEN 1 ELSE 0)
  /\ Finish(p, Res("handleVoteRequest_v1", arg[p], usr[p], TRUE,
                   requests[arg[p]]))
  /\ votingStates' = [votingStates EXCEPT ![p] = @ \ {arg[p]}]
  /\ UNCHANGED <<requesters, user_votes, clock, arg, usr, tmp, txVars, calls,
                 feedVars, ghostVars, optimisticRequests, uiRequests,
                 optimisticVotes, appVotes, timers, dateNow, rendered>>

\* ------------------------------------------------------------ vote lists
\* (a.votes || 0) + (a.requesters?.length || 0)
engagement(a) == a.votes + Len(a.requesters)

\* the comparator of UpvoteList.activeRequests: locked first, then by
\* engagement, then by creation time, newest first
activeRequests_compare(a, b) ==
  IF a.isLocked /\ ~b.isLocked THEN 0 - 1
  ELSE IF ~a.isLocked /\ b.isLocked THEN 1
  ELSE IF engagement(a) # engagement(b) THEN engagement(b) - engagement(a)
  ELSE b.createdAt - a.createdAt

\* the comparator of KioskPage.sortedRequests: locked first, then by priority
sortedRequests_compare(a, b) ==
  IF a.isLocked /\ ~b.isLocked THEN 0 - 1
  ELSE IF ~a.isLocked /\ b.isLocked THEN 1
  ELSE engagement(b) - engagement(a)

\* Array.prototype.sort(compareFn), stable: an element goes after those that
\* compare before it and after the equal ones that preceded it; c[i][j] is
\* compareFn(s[i], s[j])
Array_sort(s, c) ==
  LET rank(i) ==
        1 + Cardinality({j \in 1..Len(s) :
                           \/ c[j][i] < 0
                           \/ c[j][i] = 0 /\ j < i})
  IN [k \in 1..Len(s) |-> s[CHOOSE i \in 1..Len(s) : rank(i) = k]]

\* UpvoteList.activeRequests: the unplayed requests, sorted
activeRequests(reqs) ==
  LET filtered == SelectSeq(reqs, LAMBDA r : ~r.isPlayed)
  IN Array_sort(filtered,
                [i \in 1..Len(filtered) |->
                   [j \in 1..Len(filtered) |->
                      activeRequests_compare(filtered[i], filtered[j])]])

\* KioskPage.sortedRequests: mergedRequests, sorted
sortedRequests(merged) ==
  Array_sort(merged,
             [i \in 1..Len(merged) |->
                [j \in 1..Len(merged) |->
                   sortedRequests_compare(merged[i], merged[j])]])

\* UserFrontend renders <UpvoteList requests={mergedRequests}>; its requests
\* prop is the mergedRequests of the older App
UserFrontend_render(p) ==
  /\ rendered' =
       [rendered EXCEPT ![p] =
          LET handed ==
                UserFrontend_mergedRequests(
                  App_v1_mergedRequests(list[p], appVotes[p]),
                  optimisticVotes[p], uiRequests[p])
          IN [by |-> "UpvoteList", handed |-> handed,
              shown |-> activeRequests(handed)]]
  /\ UNCHANGED <<requests, requesters, user_votes, clock, pc, arg, usr, tmp,
                 res, txVars, calls, quota, feedVars, evq, hist, votes0,
                 optimisticRequests, uiRequests, optimisticVotes, appVotes,
                 votingStates, timers, dateNow>>

\* KioskPage renders sortedRequests; its requests prop is the mergedRequests
\* of src/App.tsx
KioskPage_render(p) ==
  /\ rendered' =
       [rendered EXCEPT ![p] =
          LET handed ==
                KioskPage_mergedRequests(appProjection(p), optimisticVotes[p],
                                         uiRequests[p])
          IN [by |-> "KioskPage", handed |-> handed,
              shown |-> sortedRequests(handed)]]
  /\ UNCHANGED <<requests, requesters, user_votes, clock, pc, arg, usr, tmp,
                 res, txVars, calls, quota, feedVars, evq, hist, votes0,
                 optimisticRequests, uiRequests, optimisticVotes, appVotes,
                 votingStates, timers, dateNow>>

\* ------------------------------------------------------- initial states
\* no handler is running; the App level state is as constructed
InitHandlers(q) ==
  /\ pc = [p \in Procs |-> "idle"]
  /\ arg = [p \in Procs |-> 1]
  /\ usr = [p \in Procs |-> Named("alice")]
  /\ tmp = [p \in Procs |-> NoTmp]
  /\ res = [p \in Procs |-> NoRes]
  /\ held = [p \in Procs |-> {}]
  /\ pend = [p \in Procs |-> [r \in ReqIds |-> NoRow]]
  /\ pendVotes = [p \in Procs |-> {}]
  /\ calls = [p \in Procs |-> 0]
  /\ quota = q
  /\ evq = [p \in Procs |-> 0]
  /\ inflight = [p \in Procs |-> <<>>]
  /\ optimisticRequests = [p \in Procs |-> {}]
  /\ appVotes = [p \in Procs |-> [r \in ReqIds |-> Undefined]]
  /\ votingStates = [p \in Procs |-> {}]
  /\ timers = [p \in Procs |-> {}]
  /\ rendered = [p \in Procs |-> NotRendered]
  /\ requestRetriesRef = [p \in Procs |-> 0]
  /\ toasts = [p \in Procs |-> <<>>]
  /\ requestInProgressRef = [p \in Procs |-> FALSE]
  /\ executions = [p \in Procs |-> {}]

\* q: the number of handlers each client starts
InitClientsQuota(q) ==
  /\ InitHandlers(q)
  /\ uiRequests = [p \in Procs |-> {}]
  /\ optimisticVotes = [p \in Procs |-> [r \in ReqIds |-> Undefined]]
  /\ dateNow = 1

InitClients(k) == InitClientsQuota([p \in Procs |-> k])

InitTitle(r) == IF r = 1 THEN "song x" ELSE "song y"

\* a queue of submitted requests, each with its submitter
InitQueue ==
  /\ requests = [r \in ReqIds |-> NewRow(InitTitle(r), r)]
  /\ requesters = [r \in ReqIds |-> <<"alice">>]
  /\ user_votes = {}
  /\ clock = MaxReq

\* ------------------------------------------------ specification: votes
\* a queue in which request 1 may already hold one kiosk vote
InitVote ==
  /\ InitClients(MaxVoteCalls)
  /\ clock = MaxReq
  /\ requesters = [r \in ReqIds |-> <<"alice">>]
  /\ \E v \in 0..1 :
       /\ votes0 = [r \in ReqIds |-> IF r = 1 THEN v ELSE 0]
       /\ requests = [r \in ReqIds |->
                        [NewRow(InitTitle(r), r) EXCEPT !.votes = votes0[r]]]
       /\ user_votes = IF v = 1 THEN {<<1, KioskId(0, 0), <<0, 0>> >>} ELSE {}
  /\ hist = {}
  /\ list = [p \in Procs |-> requestsData]
  /\ subscribed = [p \in Procs |-> FALSE]

NextVote ==
  /\ UNCHANGED notifyVars
  /\ UNCHANGED overlayVars
  /\ \E p \in Procs :
      \/ \E r \in ReqIds, u \in NamedIds \cup {KioskId(p, calls[p] + 1)} :
           add_vote_call(p, r, u)
      \/ add_vote_is_played(p)
      \/ add_vote_vote_exists(p)
      \/ add_vote_insert(p)
      \/ add_vote_update(p)
      \/ add_vote_commit(p)
      \/ \E r \in ReqIds : handleMarkPlayed(p, r)

SpecVote == InitVote /\ [][NextVote]_vars

VotesDone(r) == {h \in hist : h.op = "add_vote" /\ h.id = r}
VoteRunning(r) == \E p \in Procs : pc[p] \in VoteLabels /\ arg[p] = r
DistinctVoters(r) ==
  \A g, h \in VotesDone(r) : g # h => g.user # h.user

\* C2: when the add_vote calls made on an unplayed request all came from
\* distinct voters and have all returned, every call was accepted, votes is the
\* initial votes plus the number of calls, and there is one new user_votes row
\* per call, each with its own user_id.
C2_DistinctVotersAllCount ==
  \A r \in ReqIds :
    (~VoteRunning(r) /\ ~requests[r].is_played /\ DistinctVoters(r))
      => /\ \A h \in VotesDone(r) : h.ok
         /\ requests[r].votes = votes0[r] + Cardinality(VotesDone(r))
         /\ Cardinality(RowsOf(r)) = votes0[r] + Cardinality(VotesDone(r))
         /\ \A h \in VotesDone(r) :
              Cardinality({v \in RowsOf(r) : v[2] = h.user}) = 1

\* two distinct voters have voted on the same unplayed request
C2_Witness ==
  \E r \in ReqIds :
    /\ ~VoteRunning(r) /\ ~requests[r].is_played /\ DistinctVoters(r)
    /\ Cardinality(VotesDone(r)) >= 2
    /\ requests[r].votes = votes0[r] + Cardinality(VotesDone(r))

PairDone(r, u) == {h \in VotesDone(r) : h.user = u}

\* C3: when one voter has called add_vote twice on a request that is still
\* unplayed, exactly one of the two calls returned TRUE and the other FALSE,
\* there is exactly one user_votes row for the pair, and votes has grown by one
\* for each accepted call, so by exactly 1 for the pair.
C3_SecondVoteRejected ==
  \A r \in ReqIds : \A u \in NamedIds :
    (~VoteRunning(r) /\ ~requests[r].is_played
       /\ Cardinality(PairDone(r, u)) = 2)
      => /\ Cardinality({h \in PairDone(r, u) : h.ok}) = 1
         /\ Cardinality({h \in PairDone(r, u) : ~h.ok}) = 1
         /\ Cardinality({v \in RowsOf(r) : v[2] = u}) = 1
         /\ requests[r].votes
              = votes0[r] + Cardinality({h \in VotesDone(r) : h.ok})

\* the same voter has voted twice on an unplayed request
C3_Witness ==
  \E r \in ReqIds : \E u \in NamedIds :
    /\ ~VoteRunning(r) /\ ~requests[r].is_played
    /\ Cardinality(PairDone(r, u)) = 2
    /\ Cardinality({h \in PairDone(r, u) : h.ok}) = 1

\* C4: a vote on a request whose is_played is true never changes that
\* request's votes and never adds a user_votes row for it.
C4_PlayedVotesFrozen ==
  [][\A r \in ReqIds :
       requests[r].is_played
         => /\ requests'[r].votes = requests[r].votes
            /\ {v \in user_votes' : v[1] = r} = RowsOf(r)]_vars

\* --------------------------------- specification: client vote handlers
\* client 1 is subscribed to the change feed; every client holds the initial
\* snapshot of the queue
InitHandler ==
  /\ InitClients(MaxCalls)
  /\ InitQueue
  /\ votes0 = [r \in ReqIds |-> 0]
  /\ hist = {}
  /\ list = [p \in Procs |-> requestsData]
  /\ subscribed = [p \in Procs |-> p = 1]

NextHandler ==
  /\ UNCHANGED notifyVars
  /\ UNCHANGED overlayVars
  /\ \E p \in Procs :
      \/ \E r \in ReqIds : handleKioskVote(p, r)
      \/ handleKioskVote_update(p)
      \/ \E r \in ReqIds, u \in NamedIds : handleVoteRequest(p, r, u)
      \/ handleVoteRequest_existingVote(p)
      \/ handleVoteRequest_update(p)
      \/ handleVoteRequest_insert(p)
      \/ postgres_changes(p)
      \/ \E i \in 1..MaxInflight : reconnectRequests_return(p, i)

SpecHandler == InitHandler /\ [][NextHandler]_vars

\* C9: the stored votes of a request is never negative and never decreases
\* from one state of the store to the next.
C9_VotesMonotone ==
  [][\A r \in ReqIds :
       (requests[r].exists /\ requests'[r].exists)
         => /\ requests'[r].votes >= 0
            /\ requests'[r].votes >= requests[r].votes]_vars

\* ------------------------------- specification: submissions, one at a time
InitSubmit ==
  /\ InitClients(MaxCalls)
  /\ requests = [r \in ReqIds |-> NoRow]
  /\ requesters = [r \in ReqIds |-> <<>>]
  /\ user_votes = {}
  /\ clock = 0
  /\ votes0 = [r \in ReqIds |-> 0]
  /\ hist = {}
  /\ list = [p \in Procs |-> <<>>]
  /\ subscribed = [p \in Procs |-> FALSE]

\* the handlers of src/App.tsx, each running to its end before the next starts
NextSubmitSeq ==
  /\ UNCHANGED notifyVars
  /\ UNCHANGED overlayVars
  /\ \E p \in Procs :
      \/ \E t \in Titles, u \in NamedIds : AllIdle /\ handleSubmitRequest(p, t, u)
      \/ handleSubmitRequest_existingRequest(p)
      \/ handleSubmitRequest_join(p)
      \/ handleSubmitRequest_newRequest(p)
      \/ handleSubmitRequest_requester(p)
      \/ \E r \in ReqIds : AllIdle /\ handleMarkPlayed(p, r)

SpecSubmitSeq == InitSubmit /\ [][NextSubmitSeq]_vars

\* the same, with the older submit handler as well
NextSubmitAll ==
  \/ NextSubmitSeq
  \/ /\ UNCHANGED overlayVars
     /\ UNCHANGED notifyVars
     /\ \E p \in Procs :
          \/ \E t \in Titles, u \in NamedIds :
               AllIdle /\ handleSubmitRequest_v1(p, t, u)
          \/ handleSubmitRequest_v1_insert(p)
          \/ handleSubmitRequest_v1_requester(p)

SpecSubmitAll == InitSubmit /\ [][NextSubmitAll]_vars

Submitted(p) == res[p].op = "handleSubmitRequest" /\ res[p].ok

\* C7: a submission made while an unplayed request held the title added one
\* requester to that request and created no request; a submission made while
\* no unplayed request held the title (none yet, or only played ones) created
\* a request with one requester.
C7_MergeByTitle ==
  \A p \in Procs :
    Submitted(p)
      => /\ res[p].match # 0 =>
              res[p].made = 0 /\ res[p].id = res[p].match /\ res[p].nreq >= 2
         /\ res[p].match = 0 => res[p].made # 0 /\ res[p].nreq = 1

\* C8: a submission whose title equals, ignoring letter case, the title of an
\* unplayed request is merged into that request and creates no request.
C8_MergeIgnoresCase ==
  \A p \in Procs :
    Submitted(p) /\ res[p].matchCI # 0
      => res[p].made = 0 /\ res[p].id = res[p].matchCI

\* ------------------------------------------ specification: change feed
\* client 1 is subscribed to the change feed; every client holds the initial
\* snapshot
InitFeed ==
  /\ InitClients(MaxCalls)
  /\ InitQueue
  /\ votes0 = [r \in ReqIds |-> 0]
  /\ hist = {}
  /\ list = [p \in Procs |-> requestsData]
  /\ subscribed = [p \in Procs |-> p = 1]

NextFeed ==
  /\ UNCHANGED notifyVars
  /\ UNCHANGED overlayVars
  /\ \E p \in Procs :
      \/ \E r \in ReqIds : handleMarkPlayed(p, r)
      \/ \E r \in ReqIds : unlock_request(p, r)
      \/ \E r \in ReqIds : lock_request_call(p, r)
      \/ lock_request_clear(p)
      \/ lock_request_set(p)
      \/ lock_request_commit(p)
      \/ postgres_changes(p)
      \/ \E i \in 1..MaxInflight : reconnectRequests_return(p, i)

SpecFeed == InitFeed /\ [][NextFeed]_vars

\* C10: once every change event has been delivered to a subscribed client and
\* every refetch it started has returned, its request list equals the store's
\* current request list.
C10_Converges ==
  \A p \in Procs :
    (subscribed[p] /\ evq[p] = 0 /\ inflight[p] = <<>>) => list[p] = requestsData

\* ------------------------------------------- specification: lock state
InitLock ==
  /\ InitClients(MaxCalls)
  /\ InitQueue
  /\ votes0 = [r \in ReqIds |-> 0]
  /\ hist = {}
  /\ list = [p \in Procs |-> requestsData]
  /\ subscribed = [p \in Procs |-> FALSE]

NextLock ==
  /\ UNCHANGED notifyVars
  /\ UNCHANGED overlayVars
  /\ \E p \in Procs :
      \/ \E r \in ReqIds : lock_request_call(p, r)
      \/ lock_request_clear(p)
      \/ lock_request_set(p)
      \/ lock_request_commit(p)
      \/ \E r \in ReqIds : unlock_request(p, r)
      \/ \E r \in ReqIds : handleMarkPlayed(p, r)

SpecLock == InitLock /\ [][NextLock]_vars

LockedUnplayed == {r \in ReqIds : requests[r].exists /\ requests[r].is_locked
                                  /\ ~requests[r].is_played}

\* C1: in every state of the requests table at most one request has
\* is_locked = true and is_played = false.
C1_LockSingleton == Cardinality(LockedUnplayed) <= 1

\* C5: in every state of the requests table a request with is_played = true
\* has is_locked = false.
C5_PlayedNotLocked ==
  \A r \in ReqIds : requests[r].exists /\ requests[r].is_played
                       => ~requests[r].is_locked

\* C6: every successful markPlayed(id) is one step of the store after which
\* request id has is_played = true and is_locked = false, whatever its lock
\* state was before.
C6_MarkPlayedAtomic ==
  [][\A p \in Procs :
       (res'[p] # res[p] /\ res'[p].op = "markPlayed" /\ res'[p].ok)
         => /\ requests'[res'[p].id].is_played
            /\ ~requests'[res'[p].id].is_locked
            /\ res'[p].was.exists]_vars

\* a locked request has just been marked played
C6_Witness ==
  \E p \in Procs :
    /\ res[p].op = "markPlayed" /\ res[p].ok
    /\ res[p].was.is_locked /\ ~res[p].was.is_played
    /\ requests[res[p].id].is_played /\ ~requests[res[p].id].is_locked

\* ------------------------------------ specification: optimistic requests
\* one request is in the queue, locked or not; the audience client uses the
\* request page, with its channel connected or not; each other client is an
\* operator who marks one request played
InitOverlay ==
  /\ InitClientsQuota([p \in Procs |-> IF p \in Audience THEN MaxSubmits ELSE 1])
  /\ \E locked \in BOOLEAN :
       requests = [r \in ReqIds |->
                     IF r = 1 THEN [NewRow("song x", 1) EXCEPT !.is_locked = locked]
                     ELSE NoRow]
  /\ requesters = [r \in ReqIds |-> IF r = 1 THEN <<"alice">> ELSE <<>>]
  /\ user_votes = {}
  /\ clock = 1
  /\ votes0 = [r \in ReqIds |-> 0]
  /\ hist = {}
  /\ list = [p \in Procs |-> requestsData]
  /\ \E connected \in BOOLEAN :
       subscribed = [p \in Procs |-> p \in Audience /\ connected]

NextOverlay ==
  /\ UNCHANGED notifyVars
  /\ \/ \E p \in Audience :
          \/ \E t \in Titles, d \in 0..1 :
               handleRequestSong(p, t, currentUser(p), d)
          \/ handleSubmitRequest_existingRequest(p) /\ UNCHANGED overlayVars
          \/ handleSubmitRequest_newRequest(p) /\ UNCHANGED overlayVars
          \/ handleSubmitRequest_join(p) /\ handleRequestSong_success(p)
          \/ handleSubmitRequest_requester(p) /\ handleRequestSong_success(p)
          \/ handleSubmitRequest_catch(p)
          \/ \E tm \in timers[p] : timer_deleteRequest(p, tm)
          \/ \E e \in optimisticRequests[p] : mergedRequests_cleanup(p, e)
          \/ postgres_changes(p) /\ UNCHANGED overlayVars
          \/ \E i \in 1..MaxInflight :
               reconnectRequests_return(p, i) /\ UNCHANGED overlayVars
     \/ \E p \in Procs \ Audience :
          \E r \in ReqIds : handleMarkPlayed(p, r) /\ UNCHANGED overlayVars

SpecOverlay == InitOverlay /\ [][NextOverlay]_vars

\* client p has nothing left to run: no handler, no timer, no event, no refetch
\* response, no clean-up of an optimistic request that has a real version
Settled(p) ==
  /\ pc[p] = "idle" /\ timers[p] = {}
  /\ evq[p] = 0 /\ inflight[p] = <<>>
  /\ \A e \in optimisticRequests[p] : ~hasRealVersion(list[p], e)

\* C11: once a client's operations have returned and every timer it started
\* has run, no optimistic entry is left in its overlays, whether or not a
\* snapshot holding the counterpart has arrived.
C11_OverlayDrains ==
  \A p \in Procs :
    Settled(p) => optimisticRequests[p] = {} /\ uiRequests[p] = {}

UnplayedVersion(reqs, e) ==
  \E i \in 1..Len(reqs) :
    Lower(reqs[i].title) = Lower(e.title) /\ ~reqs[i].isPlayed

\* C13: the optimistic request of a successful submission that created a
\* request is in the App's overlay and in its projection for as long as the
\* client's request list holds no unplayed request with the same title,
\* compared ignoring case (the App starts no grace timer for it); a played
\* request with that title neither hides nor removes it.
C13_ShownUntilUnplayedVersion ==
  \A p \in Procs :
    (Submitted(p) /\ pc[p] = "idle" /\ res[p].made # 0
       /\ ~UnplayedVersion(list[p], [title |-> tmp[p].title]))
      => /\ \E e \in optimisticRequests[p] : e.id = tmp[p].tempId
         /\ Shows(appProjection(p), tmp[p].tempId)

\* C15: the list the page component hands to its lists never holds two
\* entries with the same id.
C15_NoDuplicateIds ==
  \A p \in Procs :
    \A i, j \in 1..Len(pageProjection(p)) :
      i # j => pageProjection(p)[i].id # pageProjection(p)[j].id

\* C16: the list the page component hands to its lists holds an optimistic
\* request only when the client's request list holds no request with the same
\* title.
C16_OverlayOnlyWithoutCounterpart ==
  \A p \in Procs :
    \A i \in 1..Len(pageProjection(p)) :
      IsTemp(pageProjection(p)[i].id)
        => ~\E k \in 1..Len(list[p]) :
               list[p][k].title = pageProjection(p)[i].title

OverlayDerived(p) ==
  optimisticRequests[p] \cup uiRequests[p]
    \cup {appProjection(p)[i] : i \in {k \in 1..Len(appProjection(p)) :
                                         IsTemp(appProjection(p)[k].id)}}
    \cup {pageProjection(p)[i] : i \in {k \in 1..Len(pageProjection(p)) :
                                          IsTemp(pageProjection(p)[k].id)}}

tickerRequest(p) ==
  UserFrontend_lockedRequest(appProjection(p), optimisticVotes[p],
                             uiRequests[p])

\* C17: every optimistic request, in the overlays and in the projections, has
\* isPlayed = false and isLocked = false, and the request the ticker picks as
\* locked is never an optimistic one.
C17_OverlayNeverLockedOrPlayed ==
  \A p \in Procs :
    /\ \A e \in OverlayDerived(p) : ~e.isPlayed /\ ~e.isLocked
    /\ \A i \in 1..Len(tickerRequest(p)) : ~IsTemp(tickerRequest(p)[i].id)

\* an optimistic request is shown while the ticker shows a locked request
C17_Witness ==
  \E p \in Procs :
    /\ \E i \in 1..Len(pageProjection(p)) : IsTemp(pageProjection(p)[i].id)
    /\ Len(tickerRequest(p)) = 1

\* ---------------------------------------- specification: optimistic votes
\* two requests are in the queue; the audience client's user has voted for
\* request 1; its channel is connected or not
InitOverlayVote ==
  /\ InitClientsQuota([p \in Procs |-> IF p \in Audience THEN MaxCalls ELSE 1])
  /\ clock = MaxReq
  /\ requesters = [r \in ReqIds |-> <<"bob">>]
  /\ votes0 = [r \in ReqIds |-> IF r = 1 THEN 1 ELSE 0]
  /\ requests = [r \in ReqIds |->
                   [NewRow(InitTitle(r), r) EXCEPT !.votes = votes0[r]]]
  /\ user_votes = {<<1, Named("alice"), <<0, 0>> >>}
  /\ hist = {}
  /\ list = [p \in Procs |-> requestsData]
  /\ \E connected \in BOOLEAN :
       subscribed = [p \in Procs |-> p \in Audience /\ connected]

NextOverlayVote ==
  /\ UNCHANGED notifyVars
  /\ \/ \E p \in Audience :
          \/ \E r \in ReqIds, u \in {currentUser(p), KioskId(p, calls[p] + 1)} :
               handleVote(p, r, u)
          \/ add_vote_is_played(p) /\ handleVote_then(p)
          \/ add_vote_vote_exists(p) /\ handleVote_then(p)
          \/ add_vote_insert(p) /\ handleVote_then(p)
          \/ add_vote_update(p) /\ UNCHANGED overlayVars
          \/ add_vote_commit(p) /\ handleVote_then(p)
          \/ \E tm \in timers[p] : timer_deleteVote(p, tm)
          \/ \E r \in ReqIds : handleVoteRequest_v1(p, r)
          \/ handleVoteRequest_v1_existingVote(p)
          \/ handleVoteRequest_v1_insert(p)
          \/ handleVoteRequest_v1_increment(p)
          \/ postgres_changes(p) /\ UNCHANGED overlayVars
          \/ \E i \in 1..MaxInflight :
               reconnectRequests_return(p, i) /\ UNCHANGED overlayVars
     \/ \E p \in Procs \ Audience :
          \E r \in ReqIds : handleMarkPlayed(p, r) /\ UNCHANGED overlayVars

SpecOverlayVote == InitOverlayVote /\ [][NextOverlayVote]_vars

\* C12: after a vote has failed, its optimistic value is gone and the votes
\* the projection shows for the request are the votes of the client's request
\* list.
C12_FailedVoteReverted ==
  \A p \in Procs :
    /\ (pc[p] = "idle" /\ ~res[p].ok /\ res[p].op = "handleVoteRequest_v1")
         => /\ appVotes[p][res[p].id] = Undefined
            /\ propVotes(App_v1_mergedRequests(list[p], appVotes[p]),
                         res[p].id)
                 = propVotes(list[p], res[p].id)
    /\ (pc[p] = "idle" /\ ~res[p].ok /\ res[p].op = "add_vote")
         => /\ optimisticVotes[p][res[p].id] = Undefined
            /\ propVotes(pageProjection(p), res[p].id)
                 = propVotes(appProjection(p), res[p].id)

\* C18: the optimistic value of a vote is live from the vote's start until its
\* own failure or its own timer; nothing that belongs to an earlier vote
\* removes it.
C18_LateArrivalIgnored ==
  \A p \in Procs :
    /\ pc[p] \in VoteLabels => optimisticVotes[p][arg[p]] # Undefined
    /\ \A tm \in timers[p] :
         (tm.fn = "deleteVote" /\ tm.call = calls[p] /\ pc[p] = "idle")
           => optimisticVotes[p][tm.key] # Undefined

\* ------------------------------------------- specification: vote lists
\* the inputs of the projections: a snapshot of any queue of MaxReq requests,
\* in which votes, requesters, the lock and the played flag vary; the page
\* component of the audience client may hold one optimistic request, made
\* after the snapshot, and one optimistic vote for request 1
InitProjection ==
  /\ InitHandlers([p \in Procs |-> 0])
  /\ clock = MaxReq
  /\ \E v \in [ReqIds -> 0..1], l \in [ReqIds -> BOOLEAN],
        d \in [ReqIds -> BOOLEAN] :
       requests = [r \in ReqIds |->
                     [NewRow(InitTitle(r), r) EXCEPT !.votes = v[r],
                                                     !.is_locked = l[r],
                                                     !.is_played = d[r]]]
  /\ requesters \in [ReqIds -> {<<"alice">>, <<"alice", "bob">>}]
  /\ user_votes = {}
  /\ votes0 = [r \in ReqIds |-> requests[r].votes]
  /\ hist = {}
  /\ list = [p \in Procs |-> requestsData]
  /\ subscribed = [p \in Procs |-> FALSE]
  /\ dateNow = MaxReq + 2
  /\ \E opt \in {{}, {optimisticRequest(TempId(MaxReq + 1), "Song X",
                                         "alice", MaxReq + 1)}} :
       uiRequests = [p \in Procs |-> IF p \in Audience THEN opt ELSE {}]
  /\ \E v \in {Undefined, requests[1].votes + 1} :
       optimisticVotes =
         [p \in Procs |->
            [r \in ReqIds |-> IF p \in Audience /\ r = 1 THEN v ELSE Undefined]]

NextProjection ==
  /\ UNCHANGED notifyVars
  /\ \E p \in Audience :
       \/ UserFrontend_render(p)
       \/ KioskPage_render(p)

SpecProjection == InitProjection /\ [][NextProjection]_vars

\* C14: the request list a page hands to its vote list holds no played
\* request, whatever the client's request list and overlays are.
C14_ProjectionHidesPlayed ==
  \A p \in Procs :
    \A i \in 1..Len(rendered[p].handed) : ~rendered[p].handed[i].isPlayed

\* t holds the elements of s, each as often as s does
IsPermutation(s, t) ==
  /\ Len(s) = Len(t)
  /\ \A i \in 1..Len(s) :
       Cardinality({j \in 1..Len(s) : s[j] = s[i]}) =
         Cardinality({j \in 1..Len(t) : t[j] = s[i]})

\* a may stand before b in a vote list
InVoteOrder(a, b) ==
  /\ b.isLocked => a.isLocked
  /\ a.isLocked = b.isLocked => engagement(a) >= engagement(b)
  /\ (a.isLocked = b.isLocked /\ engagement(a) = engagement(b))
       => a.createdAt >= b.createdAt

\* C19: the list a page shows is a permutation of the unplayed requests it
\* was handed, with the locked request first, then by descending votes plus
\* requesters, and among equal totals the newest first.
C19_VoteListOrdering ==
  \A p \in Procs :
    rendered[p].by # "none" =>
      /\ IsPermutation(SelectSeq(rendered[p].handed, LAMBDA r : ~r.isPlayed),
                       rendered[p].shown)
      /\ \A i, j \in 1..Len(rendered[p].shown) :
           i < j => InVoteOrder(rendered[p].shown[i], rendered[p].shown[j])

\* ------------------------------------------- specification: subscribing
\* the audience client has rendered for the first time, with an empty request
\* list and no channel; the other clients are operators working on the queue
InitSubscribe ==
  /\ InitClients(MaxCalls)
  /\ InitQueue
  /\ votes0 = [r \in ReqIds |-> 0]
  /\ hist = {}
  /\ list = [p \in Procs |-> IF p \in Audience THEN <<>> ELSE requestsData]
  /\ subscribed = [p \in Procs |-> FALSE]

NextSubscribe ==
  /\ UNCHANGED notifyVars
  /\ UNCHANGED overlayVars
  /\ \/ \E p \in Audience :
          \/ subscription_effect(p)
          \/ postgres_changes(p)
          \/ \E i \in 1..MaxInflight : reconnectRequests_return(p, i)
     \/ \E p \in Procs \ Audience :
          \/ \E r \in ReqIds : handleMarkPlayed(p, r)
          \/ \E r \in ReqIds : unlock_request(p, r)
          \/ \E r \in ReqIds : lock_request_call(p, r)
          \/ lock_request_clear(p)
          \/ lock_request_set(p)
          \/ lock_request_commit(p)

SpecSubscribe == InitSubscribe /\ [][NextSubscribe]_vars

\* C20: the first value the request list of a subscribing client takes is the
\* response of the initial fetch, the oldest fetch in flight; no response of
\* a refetch started by a change event is applied before it.
C20_InitialSnapshotFirst ==
  [][\A p \in Procs :
       (subscribed[p] /\ list[p] = <<>> /\ list'[p] # <<>>)
         => list'[p] = Head(inflight[p])]_vars

\* ------------------------------------ specification: channel errors
\* the audience client has run the subscription effect: its channel is
\* subscribed and the initial fetch has returned; the others are operators
InitChannel ==
  /\ InitClients(MaxCalls)
  /\ InitQueue
  /\ votes0 = [r \in ReqIds |-> 0]
  /\ hist = {}
  /\ list = [p \in Procs |-> requestsData]
  /\ subscribed = [p \in Procs |-> p \in Audience]

NextChannel ==
  /\ UNCHANGED notifyVars
  /\ \/ \E p \in Audience :
          \/ subscribe_CHANNEL_ERROR(p)
          \/ subscribe_SUBSCRIBED(p)
          \/ timer_unsubscribe(p)
          \/ postgres_changes(p) /\ UNCHANGED overlayVars
          \/ \E i \in 1..MaxInflight :
               reconnectRequests_return(p, i) /\ UNCHANGED overlayVars
     \/ \E p \in Procs \ Audience :
          \E r \in ReqIds : handleMarkPlayed(p, r) /\ UNCHANGED overlayVars

SpecChannel == InitChannel /\ [][NextChannel]_vars

\* C21: once the retry the client starts on a channel error has run, the
\* client holds an active subscription again.
C21_Resubscribed ==
  \A p \in Audience : UnsubscribeTimer \notin timers[p] => subscribed[p]

\* --------------------------------------- specification: queue reset
\* one request is in the queue; every client may vote, submit, lock, unlock,
\* mark played and reset the queue
InitReset ==
  /\ InitClients(MaxCalls)
  /\ requests = [r \in ReqIds |-> IF r = 1 THEN NewRow("song x", 1) ELSE NoRow]
  /\ requesters = [r \in ReqIds |-> IF r = 1 THEN <<"alice">> ELSE <<>>]
  /\ user_votes = {}
  /\ clock = 1
  /\ votes0 = [r \in ReqIds |-> 0]
  /\ hist = {}
  /\ list = [p \in Procs |-> requestsData]
  /\ subscribed = [p \in Procs |-> FALSE]

NextReset ==
  /\ UNCHANGED notifyVars
  /\ \E p \in Procs :
       \/ \E r \in ReqIds : handleMarkPlayed(p, r) /\ UNCHANGED overlayVars
       \/ \E r \in ReqIds : unlock_request(p, r) /\ UNCHANGED overlayVars
       \/ \E r \in ReqIds : lock_request_call(p, r) /\ UNCHANGED overlayVars
       \/ lock_request_clear(p) /\ UNCHANGED overlayVars
       \/ lock_request_set(p) /\ UNCHANGED overlayVars
       \/ lock_request_commit(p) /\ UNCHANGED overlayVars
       \/ \E r \in ReqIds : handleKioskVote(p, r) /\ UNCHANGED overlayVars
       \/ handleKioskVote_update(p) /\ UNCHANGED overlayVars
       \/ \E t \in {"song x", "song y"} :
            handleSubmitRequest(p, t, currentUser(p)) /\ UNCHANGED overlayVars
       \/ handleSubmitRequest_existingRequest(p) /\ UNCHANGED overlayVars
       \/ handleSubmitRequest_join(p) /\ UNCHANGED overlayVars
       \/ handleSubmitRequest_newRequest(p) /\ UNCHANGED overlayVars
       \/ handleSubmitRequest_requester(p) /\ UNCHANGED overlayVars
       \/ handleResetQueue_update(p) /\ UNCHANGED overlayVars
       \/ handleResetQueue(p)

SpecReset == InitReset /\ [][NextReset]_vars

\* C22: a request that is played stays played for as long as its row
\* exists.
C22_PlayedIsTerminal ==
  [][\A r \in ReqIds :
       (requests[r].exists /\ requests[r].is_played /\ requests'[r].exists)
         => requests'[r].is_played]_vars

\* ------------------------------------------ specification: kiosk votes
\* every client is a kiosk; votes go through handleKioskVote of the App, and
\* on the audience client also through the kiosk page's handleVote; client 1
\* is subscribed to the change feed
NextKiosk ==
  /\ UNCHANGED notifyVars
  /\ \/ \E p \in Procs :
          \/ \E r \in ReqIds : handleKioskVote(p, r) /\ UNCHANGED overlayVars
          \/ handleKioskVote_update(p) /\ UNCHANGED overlayVars
          \/ postgres_changes(p) /\ UNCHANGED overlayVars
          \/ \E i \in 1..MaxInflight :
               reconnectRequests_return(p, i) /\ UNCHANGED overlayVars
     \/ \E p \in Audience :
          \/ \E r \in ReqIds : handleVote(p, r, KioskId(p, calls[p] + 1))
          \/ add_vote_is_played(p) /\ handleVote_then(p)
          \/ add_vote_vote_exists(p) /\ handleVote_then(p)
          \/ add_vote_insert(p) /\ handleVote_then(p)
          \/ add_vote_update(p) /\ UNCHANGED overlayVars
          \/ add_vote_commit(p) /\ handleVote_then(p)
          \/ \E tm \in timers[p] : timer_deleteVote(p, tm)

SpecKiosk == InitHandler /\ [][NextKiosk]_vars

KioskVotesDone(r) ==
  {h \in hist : h.id = r /\ h.op \in {"handleUserVote", "add_vote"}}

\* C23: when every kiosk vote made on a request has returned, each of them
\* was accepted and the request's votes is the initial votes plus their
\* number.
C23_KioskVotesAllCount ==
  \A r \in ReqIds :
    (\A p \in Procs : pc[p] = "idle")
      => /\ \A h \in KioskVotesDone(r) : h.ok
         /\ requests[r].votes = votes0[r] + Cardinality(KioskVotesDone(r))

\* --------------------------------------- specification: submit retries
\* the audience client submits from a request form, 'song x', which request
\* 1 holds, or 'song y'; any store call of a submission may fail, with a network
\* error or another error
\* the attempts MaxCalls submissions may make, and one more
RetryQuota == MaxCalls * (MAX_REQUEST_RETRIES + 1) + 1

InitRetry ==
  /\ InitClientsQuota([p \in Procs |->
                         IF p \in Audience THEN RetryQuota ELSE 0])
  /\ requests = [r \in ReqIds |-> IF r = 1 THEN NewRow("song x", 1) ELSE NoRow]
  /\ requesters = [r \in ReqIds |-> IF r = 1 THEN <<"alice">> ELSE <<>>]
  /\ user_votes = {}
  /\ clock = 1
  /\ votes0 = [r \in ReqIds |-> 0]
  /\ hist = {}
  /\ list = [p \in Procs |-> requestsData]
  /\ subscribed = [p \in Procs |-> FALSE]

NextRetry ==
  \E p \in Audience :
    \/ \E t \in {"song x", "song y"} :
         Len(toasts[p]) < MaxCalls /\ handleSubmitRequest_action(p, t)
    \/ handleSubmitRequest_existingRequest(p)
         /\ UNCHANGED overlayVars /\ UNCHANGED notifyVars
    \/ handleSubmitRequest_newRequest(p)
         /\ UNCHANGED overlayVars /\ UNCHANGED notifyVars
    \/ handleSubmitRequest_join(p) /\ handleSubmitRequest_succeeded(p)
    \/ handleSubmitRequest_requester(p) /\ handleSubmitRequest_succeeded(p)
    \/ handleSubmitRequest_catch_other(p)
    \/ handleSubmitRequest_catch_network(p)
    \/ \E tm \in timers[p] : timer_retrySubmit(p, tm)
    \/ \E e \in optimisticRequests[p] :
         mergedRequests_cleanup(p, e) /\ UNCHANGED notifyVars
    \/ \E i \in 1..MaxInflight :
         reconnectRequests_return(p, i)
           /\ UNCHANGED overlayVars /\ UNCHANGED notifyVars

SpecRetry == InitRetry /\ [][NextRetry]_vars

\* C24: no attempt beyond the 1 + MAX_REQUEST_RETRIES-th is ever made for one
\* submission.
C24_AttemptsBounded ==
  \A p \in Procs :
    pc[p] \in SubmitLabels => tmp[p].attempt <= 1 + MAX_REQUEST_RETRIES

\* -------------------------------------- specification: submit outcomes
\* the audience client submits from the request page
NextOutcome ==
  \E p \in Audience :
    \/ \E t \in {"song x", "song y"} :
         Len(toasts[p]) < MaxCalls /\ handleRequestSong_action(p, t, 1)
    \/ \E t \in {"song x", "song y"} :
         Len(toasts[p]) < MaxCalls /\ handleRequestSong_inProgress(p, t)
    \/ handleSubmitRequest_existingRequest(p)
         /\ UNCHANGED overlayVars /\ UNCHANGED notifyVars
    \/ handleSubmitRequest_newRequest(p)
         /\ UNCHANGED overlayVars /\ UNCHANGED notifyVars
    \/ handleSubmitRequest_join(p) /\ handleSubmitRequest_succeeded(p)
    \/ handleSubmitRequest_requester(p) /\ handleSubmitRequest_succeeded(p)
    \/ handleSubmitRequest_catch_other(p)
    \/ handleSubmitRequest_catch_network(p)
    \/ \E tm \in timers[p] : timer_retrySubmit(p, tm)
    \/ \E tm \in timers[p] : timer_deleteRequest(p, tm) /\ UNCHANGED notifyVars
    \/ \E e \in optimisticRequests[p] :
         mergedRequests_cleanup(p, e) /\ UNCHANGED notifyVars
    \/ \E i \in 1..MaxInflight :
         reconnectRequests_return(p, i)
           /\ UNCHANGED overlayVars /\ UNCHANGED notifyVars

SpecOutcome == InitRetry /\ [][NextOutcome]_vars

\* no attempt of a submit action of client p is running or due
NoAttemptLeft(p) ==
  pc[p] = "idle" /\ \A tm \in timers[p] : tm.fn # "retrySubmit"

\* C26: once no attempt of a client's submit actions is running or due,
\* exactly one notification has been shown for each of them.
C26_OneOutcomePerAction ==
  \A p \in Procs :
    NoAttemptLeft(p) => \A a \in 1..Len(toasts[p]) : toasts[p][a] = 1

\* ------------------------------------------ handlers of the plain App
\* handleVoteRequest(requestId) up to its first await
App_handleVoteRequest(p, r, u) ==
  /\ Begin(p, "app_vote_check", r, Named(u), NoTmp)
  /\ UNCHANGED <<requests, requesters, user_votes, clock, res, txVars,
                 feedVars, evq, ghostVars>>

\* catch (error) { console.error(...); throw error; }
App_handleVoteRequest_catch(p) ==
  Finish(p, [Res("App_handleVoteRequest", arg[p], usr[p], FALSE,
                 requests[arg[p]]) EXCEPT !.thrown = TRUE])

\* select('id') from user_votes; if (existingVote) return;
App_handleVoteRequest_existingVote(p) ==
  /\ pc[p] = "app_vote_check"
  /\ IF VoteExists(arg[p], usr[p])
       THEN Finish(p, Res("App_handleVoteRequest", arg[p], usr[p], FALSE,
                          requests[arg[p]]))
       ELSE /\ pc' = [pc EXCEPT ![p] = "app_vote_insert"]
            /\ UNCHANGED res
  /\ UNCHANGED <<requests, requesters, user_votes, clock, arg, usr, tmp,
                 txVars, calls, feedVars, evq, ghostVars>>

\* insert into user_votes; if (voteError) throw voteError;
App_handleVoteRequest_insert(p) ==
  /\ pc[p] = "app_vote_insert"
  /\ IF UniqueViolation(arg[p], usr[p]) \/ ForeignKeyViolation(arg[p])
       THEN /\ App_handleVoteRequest_catch(p)
            /\ UNCHANGED user_votes
       ELSE /\ user_votes' =
                 user_votes \cup {<<arg[p], usr[p], <<p, calls[p]>> >>}
            /\ pc' = [pc EXCEPT ![p] = "app_vote_update"]
            /\ UNCHANGED res
  /\ UNCHANGED <<requests, requesters, clock, arg, usr, tmp, txVars, calls,
                 feedVars, evq, ghostVars>>

\* update({votes: votes + 1}).eq('id', requestId); the handler then ends
\* with no return statement
App_handleVoteRequest_update(p) ==
  /\ pc[p] = "app_vote_update"
  /\ ~LockedByOther(p, arg[p])
  /\ requests' = [requests EXCEPT ![arg[p]] =
                    IF @.exists THEN [@ EXCEPT !.votes = @ + 1] ELSE @]
  /\ Emit(IF requests[arg[p]].exists THEN 1 ELSE 0)
  /\ Finish(p, Res("App_handleVoteRequest", arg[p], usr[p], TRUE,
                   requests[arg[p]]))
  /\ UNCHANGED <<requesters, user_votes, clock, arg, usr, tmp, txVars, calls,
                 feedVars, ghostVars>>

NextPlainApp ==
  /\ UNCHANGED notifyVars
  /\ UNCHANGED overlayVars
  /\ \E p \in Procs :
       \/ \E r \in ReqIds : \E u \in Names : App_handleVoteRequest(p, r, u)
       \/ App_handleVoteRequest_existingVote(p)
       \/ App_handleVoteRequest_insert(p)
       \/ App_handleVoteRequest_update(p)
       \/ handleResetQueue_update(p)

SpecPlainApp == InitReset /\ [][NextPlainApp]_vars

\* C25: no core handler passes a storage error on to its caller as a thrown
\* error: every finished handler call has resolved to an outcome.
C25_NoErrorThrown == \A p \in Procs : ~res[p].thrown

\* ------------------------------ specification: what a submission changes
\* clients submit while others mark requests played and cast kiosk votes
NextSubmitFrame ==
  \E p \in Procs :
    \/ \E t \in {"song x", "song y"} :
         /\ handleSubmitRequest(p, t, currentUser(p))
         /\ UNCHANGED overlayVars /\ UNCHANGED notifyVars
    \/ handleSubmitRequest_existingRequest(p)
         /\ UNCHANGED overlayVars /\ UNCHANGED notifyVars
    \/ handleSubmitRequest_join(p)
         /\ UNCHANGED overlayVars /\ UNCHANGED notifyVars
    \/ handleSubmitRequest_newRequest(p)
         /\ UNCHANGED overlayVars /\ UNCHANGED notifyVars
    \/ handleSubmitRequest_requester(p)
         /\ UNCHANGED overlayVars /\ UNCHANGED notifyVars
    \/ \E r \in ReqIds :
         /\ handleMarkPlayed(p, r)
         /\ UNCHANGED overlayVars /\ UNCHANGED notifyVars
    \/ \E r \in ReqIds :
         /\ handleKioskVote(p, r)
         /\ UNCHANGED overlayVars /\ UNCHANGED notifyVars
    \/ handleKioskVote_update(p)
         /\ UNCHANGED overlayVars /\ UNCHANGED notifyVars

\* one request titled "song x" is in the queue; the audience client makes
\* MaxCalls calls and every other client MaxSubmits
InitSubmitFrame ==
  /\ InitClientsQuota([p \in Procs |->
                         IF p \in Audience THEN MaxCalls ELSE MaxSubmits])
  /\ requests = [r \in ReqIds |-> IF r = 1 THEN NewRow("song x", 1) ELSE NoRow]
  /\ requesters = [r \in ReqIds |-> IF r = 1 THEN <<"alice">> ELSE <<>>]
  /\ user_votes = {}
  /\ clock = 1
  /\ votes0 = [r \in ReqIds |-> 0]
  /\ hist = {}
  /\ list = [p \in Procs |-> requestsData]
  /\ subscribed = [p \in Procs |-> FALSE]

SpecSubmitFrame == InitSubmitFrame /\ [][NextSubmitFrame]_vars

\* C27: the steps of a submission that finds an unplayed request with its
\* title leave every request row as it is and create none; the only change
\* is the submitter appended to the requesters of the request found.
C27_MergeChangesOnlyRequesters ==
  [][\A p \in Procs :
       /\ (pc[p] = "submit_lookup" /\ pc'[p] = "submit_join")
            => /\ requests' = requests
               /\ requesters' = requesters
               /\ clock' = clock
               /\ user_votes' = user_votes
       /\ (pc[p] = "submit_join" /\ pc'[p] = "idle")
            => /\ requests' = requests
               /\ clock' = clock
               /\ user_votes' = user_votes
               /\ requesters' =
                    [requesters EXCEPT ![tmp[p].found] = Append(@, usr[p][1])]
    ]_vars

\* a submission has merged into a request that has votes, with another
\* request in the store
C27_Witness ==
  \E p \in Procs :
    /\ pc[p] = "idle"
    /\ res[p].op = "handleSubmitRequest" /\ res[p].ok
    /\ res[p].made = 0 /\ res[p].id # 0
    /\ requests[res[p].id].votes > 0
    /\ Len(requesters[res[p].id]) >= 2
    /\ \E r \in ReqIds \ {res[p].id} :
         requests[r].exists /\ Len(requesters[r]) = 1

\* C28: a submission that finds no unplayed request with its title inserts
\* one request row, with votes = 0, is_locked = false, is_played = false and
\* no requester yet, and then appends one requester, the submitter, to it.
C28_NewRequestFresh ==
  [][\A p \in Procs :
       /\ (pc[p] = "submit_insert" /\ pc'[p] = "submit_requester")
            => /\ ~requests[tmp'[p].made].exists
               /\ requesters[tmp'[p].made] = <<>>
               /\ \A r \in ReqIds \ {tmp'[p].made} :
                    requests'[r] = requests[r]
               /\ requests'[tmp'[p].made].exists
               /\ requests'[tmp'[p].made].title = tmp[p].title
               /\ requests'[tmp'[p].made].votes = 0
               /\ ~requests'[tmp'[p].made].is_locked
               /\ ~requests'[tmp'[p].made].is_played
               /\ requesters' = requesters
       /\ (pc[p] = "submit_requester" /\ pc'[p] = "idle")
            => /\ requests' = requests
               /\ requesters' =
                    [requesters EXCEPT ![tmp[p].made] = Append(@, usr[p][1])]
    ]_vars

\* a submission has created a request, which holds its submitter alone
C28_Witness ==
  \E p \in Procs :
    /\ pc[p] = "idle"
    /\ res[p].op = "handleSubmitRequest" /\ res[p].ok
    /\ res[p].made # 0
    /\ requests[res[p].made].exists
    /\ requesters[res[p].made] = <<usr[p][1]>>

\* ------------------------------------------------- unlocking one request
\* .neq('id', '00000000-0000-0000-0000-000000000000'): every row
neq_id_zero(id) == ReqIds

\* .eq('id', id): the rows an UPDATE ... WHERE id = id selects
eq_id(id) == {r \in ReqIds : r = id}

\* handleLockRequest(id) of the real-time App when the client's copy of the
\* request is locked (newLockedState = false):
\* update({is_locked: false}).eq('id', id)
handleLockRequest_unlock(p, id) ==
  /\ \E i \in 1..Len(mergedRequests(list[p], optimisticRequests[p])) :
       LET requestToUpdate == mergedRequests(list[p], optimisticRequests[p])[i]
       IN requestToUpdate.id = id /\ requestToUpdate.isLocked
  /\ Begin(p, "idle", id, usr[p], NoTmp)
  /\ \A r \in eq_id(id) : ~LockedByOther(p, r)
  /\ requests' = [r \in ReqIds |->
                    IF r \in eq_id(id) /\ requests[r].exists
                      THEN [requests[r] EXCEPT !.is_locked = FALSE]
                      ELSE requests[r]]
  /\ Emit(Cardinality({r \in eq_id(id) : requests[r].exists}))
  /\ res' = [res EXCEPT ![p] =
                Res("handleLockRequest", id, usr[p], TRUE, requests[id])]
  /\ UNCHANGED <<requesters, user_votes, clock, txVars, feedVars, ghostVars>>

\* every request is in the queue unplayed, locked or not, with or without a
\* vote; the clients hold the list as fetched
InitUnlock ==
  /\ InitClientsQuota([p \in Procs |->
                         IF p \in Audience THEN MaxCalls ELSE MaxSubmits])
  /\ clock = MaxReq
  /\ \E v \in [ReqIds -> 0..1], l \in [ReqIds -> BOOLEAN] :
       requests = [r \in ReqIds |->
                     [NewRow(InitTitle(r), r) EXCEPT !.votes = v[r],
                                                     !.is_locked = l[r]]]
  /\ requesters = [r \in ReqIds |-> <<"alice">>]
  /\ user_votes = {}
  /\ votes0 = [r \in ReqIds |-> requests[r].votes]
  /\ hist = {}
  /\ list = [p \in Procs |-> requestsData]
  /\ subscribed = [p \in Procs |-> FALSE]

NextUnlock ==
  /\ UNCHANGED notifyVars
  /\ UNCHANGED overlayVars
  /\ \E p \in Procs :
       \/ \E r \in ReqIds : unlock_request(p, r)
       \/ \E r \in ReqIds : handleLockRequest_unlock(p, r)
       \/ \E r \in ReqIds : lock_request_call(p, r)
       \/ lock_request_clear(p)
       \/ lock_request_set(p)
       \/ lock_request_commit(p)
       \/ \E r \in ReqIds : handleMarkPlayed(p, r)

SpecUnlock == InitUnlock /\ [][NextUnlock]_vars

\* client p makes an unlock call in this step
UnlockStep(p) ==
  /\ calls'[p] = calls[p] + 1
  /\ pc'[p] = "idle"
  /\ res'[p].op \in {"unlock_request", "handleLockRequest"}

\* C29: an unlock of request id leaves every other request, the requesters
\* and the votes as they are, changes nothing of request id but is_locked,
\* which it makes false, and changes nothing when request id is not locked.
C29_UnlockChangesOnlyTarget ==
  [][\A p \in Procs :
       UnlockStep(p)
         => /\ \A r \in ReqIds \ {arg'[p]} : requests'[r] = requests[r]
            /\ requests'[arg'[p]] =
                 [requests[arg'[p]] EXCEPT !.is_locked = FALSE]
            /\ ~requests[arg'[p]].is_locked => requests' = requests
            /\ requesters' = requesters
            /\ user_votes' = user_votes
            /\ clock' = clock
    ]_vars

\* a client has unlocked a locked request through the handler while
\* another request is locked, and that one still is
C29_Witness ==
  \E p \in Procs :
    /\ pc[p] = "idle"
    /\ res[p].op = "handleLockRequest"
    /\ res[p].was.is_locked
    /\ ~requests[res[p].id].is_locked
    /\ \E r \in ReqIds \ {res[p].id} :
         requests[r].is_locked /\ ~requests[r].is_played

\* --------------------------------------- computing the App projection
\* the optimistic requests the filter of mergedRequests finds a real
\* version for
withRealVersion(p) ==
  {e \in optimisticRequests[p] : IsTemp(e.id) /\ hasRealVersion(list[p], e)}

\* what the useMemo of App.mergedRequests computes from (requests,
\* optimisticRequests)
mergedRequests_output(p) ==
  [by |-> "App", handed |-> list[p], shown |-> appProjection(p)]

\* one evaluation of the useMemo of App.mergedRequests, run when its
\* inputs have changed: for every optimistic request with a real version the
\* filter callback calls setTimeout(() => setOptimisticRequests(...), 100)
mergedRequests_useMemo(p) ==
  /\ rendered[p] # mergedRequests_output(p)
  /\ rendered' = [rendered EXCEPT ![p] = mergedRequests_output(p)]
  /\ timers' = [timers EXCEPT ![p] =
                  @ \cup {[fn |-> "cleanupOptimistic", key |-> e.id,
                            call |-> 0, data |-> ""] : e \in withRealVersion(p)}]
  /\ UNCHANGED <<requests, requesters, user_votes, clock, pc, arg, usr, tmp,
                 res, txVars, calls, quota, feedVars, evq, hist, votes0,
                 optimisticRequests, uiRequests, optimisticVotes, appVotes,
                 votingStates, dateNow>>

\* the timer runs: newMap.delete(req.id)
timer_cleanupOptimistic(p, tm) ==
  /\ tm \in timers[p]
  /\ tm.fn = "cleanupOptimistic"
  /\ timers' = [timers EXCEPT ![p] = @ \ {tm}]
  /\ optimisticRequests' =
       [optimisticRequests EXCEPT ![p] = MapDelete(@, tm.key)]
  /\ UNCHANGED <<requests, requesters, user_votes, clock, pc, arg, usr, tmp,
                 res, txVars, calls, quota, feedVars, evq, hist, votes0,
                 uiRequests, optimisticVotes, appVotes, votingStates, dateNow,
                 rendered>>

\* the audience client submits through the App handler, which adds the
\* optimistic requests, and the App re-renders
NextPure ==
  \E p \in Audience :
    \/ \E t \in Titles :
         Len(toasts[p]) < MaxCalls /\ handleSubmitRequest_action(p, t)
    \/ handleSubmitRequest_existingRequest(p)
         /\ UNCHANGED overlayVars /\ UNCHANGED notifyVars
    \/ handleSubmitRequest_newRequest(p)
         /\ UNCHANGED overlayVars /\ UNCHANGED notifyVars
    \/ handleSubmitRequest_join(p) /\ handleSubmitRequest_succeeded(p)
    \/ handleSubmitRequest_requester(p) /\ handleSubmitRequest_succeeded(p)
    \/ mergedRequests_useMemo(p) /\ UNCHANGED notifyVars
    \/ \E tm \in timers[p] :
         timer_cleanupOptimistic(p, tm) /\ UNCHANGED notifyVars

SpecPure == InitRetry /\ [][NextPure]_vars

\* C30: a step that computes the projection changes neither the request
\* list nor an overlay and starts no timer.
C30_ProjectionHasNoSideEffect ==
  [][\A p \in Procs :
       rendered'[p] # rendered[p]
         => /\ list' = list
            /\ optimisticRequests' = optimisticRequests
            /\ uiRequests' = uiRequests
            /\ optimisticVotes' = optimisticVotes
            /\ timers' = timers
    ]_vars

\* ------------------------------ the two-statement lock of the client
\* handleLockRequest(id) of the real-time App when the client's copy of the
\* request is not locked (newLockedState = true), up to its first await
handleLockRequest_lock(p, id) ==
  /\ \E i \in 1..Len(mergedRequests(list[p], optimisticRequests[p])) :
       LET requestToUpdate == mergedRequests(list[p], optimisticRequests[p])[i]
       IN requestToUpdate.id = id /\ ~requestToUpdate.isLocked
  /\ Begin(p, "dlock_clear", id, usr[p], NoTmp)
  /\ UNCHANGED <<requests, requesters, user_votes, clock, res, txVars,
                 feedVars, evq, ghostVars>>

\* await supabase.from('requests').update({is_locked: false}).neq('id', 0):
\* one statement in its own transaction. Its result is not looked at, so the
\* handler goes on whether the statement took effect (ok) or not.
handleLockRequest_clear(p, ok) ==
  /\ pc[p] = "dlock_clear"
  /\ IF ok
       THEN /\ \A r \in ReqIds : requests[r].exists => ~LockedByOther(p, r)
            /\ requests' = [r \in ReqIds |->
                              IF requests[r].exists
                                THEN [requests[r] EXCEPT !.is_locked = FALSE]
                                ELSE requests[r]]
            /\ Emit(Cardinality({r \in ReqIds : requests[r].exists}))
       ELSE UNCHANGED <<requests, evq>>
  /\ tmp' = [tmp EXCEPT ![p].cleared = ok]
  /\ pc' = [pc EXCEPT ![p] = "dlock_set"]
  /\ UNCHANGED <<requesters, user_votes, clock, arg, usr, res, txVars, calls,
                 feedVars, ghostVars>>

\* update({is_locked: true}).eq('id', id); if (lockError) throw lockError;
\* the catch block calls reconnectRequests()
handleLockRequest_set(p, ok) ==
  /\ pc[p] = "dlock_set"
  /\ IF ok
       THEN /\ ~LockedByOther(p, arg[p])
            /\ requests' = [requests EXCEPT ![arg[p]] =
                              IF @.exists THEN [@ EXCEPT !.is_locked = TRUE]
                              ELSE @]
            /\ Emit(IF requests[arg[p]].exists THEN 1 ELSE 0)
            /\ UNCHANGED inflight
       ELSE /\ reconnectRequests(p)
            /\ UNCHANGED <<requests, evq>>
  /\ Finish(p, Res("handleLockRequest_lock", arg[p], usr[p], ok,
                   requests[arg[p]]))
  /\ UNCHANGED <<requesters, user_votes, clock, arg, usr, tmp, txVars, calls,
                 list, subscribed, ghostVars>>

\* operator clients lock requests through the handler; every statement
\* takes effect
NextDirectLock ==
  /\ UNCHANGED notifyVars
  /\ UNCHANGED overlayVars
  /\ \E p \in Procs :
       \/ \E r \in ReqIds : handleLockRequest_lock(p, r)
       \/ handleLockRequest_clear(p, TRUE)
       \/ handleLockRequest_set(p, TRUE)
       \/ \E r \in ReqIds : handleMarkPlayed(p, r)

SpecDirectLock == InitLock /\ [][NextDirectLock]_vars

\* C31: while clients lock through the two-statement handler, no two
\* unplayed requests are locked at the same time.
C31_DirectLockSingleton ==
  \A r1, r2 \in ReqIds :
    (r1 \in LockedUnplayed /\ r2 \in LockedUnplayed) => r1 = r2

\* the same handler when a statement can be refused by the store
NextLockFail ==
  /\ UNCHANGED notifyVars
  /\ UNCHANGED overlayVars
  /\ \E p \in Procs :
       \/ \E r \in ReqIds : handleLockRequest_lock(p, r)
       \/ \E ok \in BOOLEAN : handleLockRequest_clear(p, ok)
       \/ \E ok \in BOOLEAN : handleLockRequest_set(p, ok)
       \/ \E i \in 1..MaxInflight : reconnectRequests_return(p, i)

SpecLockFail == InitLock /\ [][NextLockFail]_vars

\* C37: a lock call that has returned with the target locked by it had its
\* clear statement take effect.
C37_NoLockWithoutClear ==
  \A p \in Procs :
    (pc[p] = "idle" /\ res[p].op = "handleLockRequest_lock" /\ res[p].ok)
      => tmp[p].cleared

\* ----------------------------- specification: named votes by the handler
\* clients vote as named users through handleUserVote and follow the feed
NextNamedVote ==
  /\ UNCHANGED notifyVars
  /\ UNCHANGED overlayVars
  /\ \E p \in Procs :
       \/ \E r \in ReqIds, u \in NamedIds : handleVoteRequest(p, r, u)
       \/ handleVoteRequest_existingVote(p)
       \/ handleVoteRequest_update(p)
       \/ handleVoteRequest_insert(p)
       \/ postgres_changes(p)
       \/ \E i \in 1..MaxInflight : reconnectRequests_return(p, i)

SpecNamedVote == InitHandler /\ [][NextNamedVote]_vars

\* the calls of handleUserVote for request r that have returned
NamedVotesDone(r) == {h \in hist : h.op = "handleUserVote" /\ h.id = r}

\* each of them by another voter on another client
OneVotePerVoterAndClient(r) ==
  \A g, h \in NamedVotesDone(r) :
    g # h => (g.user # h.user /\ g.proc # h.proc)

\* C32: once the handlers have returned, the votes of a request that
\* distinct named voters on different clients voted for have grown by the
\* number of these voters.
C32_NamedVotesAllCount ==
  \A r \in ReqIds :
    ((\A p \in Procs : pc[p] = "idle") /\ OneVotePerVoterAndClient(r))
      => requests[r].votes = votes0[r] + Cardinality(NamedVotesDone(r))

\* C33: a named vote that has written the new votes value and returns
\* success has added its user_votes row.
C33_IncrementHasVoteRow ==
  [][\A p \in Procs :
       (pc[p] = "named_insert" /\ pc'[p] = "idle" /\ res'[p].ok)
         => \E v \in user_votes' \ user_votes :
              v[1] = arg[p] /\ v[2] = usr[p]
    ]_vars

\* ------------------------------- specification: concurrent submissions
\* clients submit at any time into a queue that starts empty
NextSubmitRace ==
  /\ UNCHANGED notifyVars
  /\ UNCHANGED overlayVars
  /\ \E p \in Procs :
       \/ \E t \in {"song x", "song y"} :
            handleSubmitRequest(p, t, currentUser(p))
       \/ handleSubmitRequest_existingRequest(p)
       \/ handleSubmitRequest_join(p)
       \/ handleSubmitRequest_newRequest(p)
       \/ handleSubmitRequest_requester(p)

SpecSubmitRace == InitSubmit /\ [][NextSubmitRace]_vars

\* the last submission of client p created a request
Created(p) == pc[p] = "idle" /\ Submitted(p) /\ res[p].made # 0

\* C34: two submissions that both found no match and both inserted have
\* left two requests, one each, unplayed and holding the title submitted and
\* the submitter; for one title these are two unplayed requests of that title.
C34_RaceLeavesDuplicates ==
  \A p, q \in Procs :
    (p # q /\ Created(p) /\ Created(q))
      => /\ res[p].made # res[q].made
         /\ res[p].made \in Unplayed(tmp[p].title)
         /\ \E i \in 1..Len(requesters[res[p].made]) :
              requesters[res[p].made][i] = usr[p][1]
         /\ tmp[p].title = tmp[q].title
              => Cardinality(Unplayed(tmp[p].title)) >= 2

\* two clients have submitted the same new title and two unplayed requests
\* hold it, each with its one requester
C34_Witness ==
  \E p, q \in Procs :
    /\ p # q /\ Created(p) /\ Created(q)
    /\ tmp[p].title = tmp[q].title
    /\ Unplayed(tmp[p].title) = {res[p].made, res[q].made}
    /\ res[p].made # res[q].made
    /\ requesters[res[p].made] = <<usr[p][1]>>
    /\ requesters[res[q].made] = <<usr[q][1]>>

\* C36: a submission made alone whose title some unplayed request holds
\* goes on to add a requester to one of these requests.
C36_DuplicatesStayBounded ==
  [][\A p \in Procs :
       (/\ pc[p] = "submit_lookup" /\ pc'[p] # "submit_lookup"
        /\ \A q \in Procs \ {p} : pc[q] = "idle"
        /\ Unplayed(tmp[p].title) # {})
         => /\ pc'[p] = "submit_join"
            /\ tmp'[p].found \in Unplayed(tmp[p].title)
    ]_vars

\* ------------------------------------ specification: clearing the queue
\* clients submit through the App handler, vote as named users and clear
\* the queue; an insert for a request that is gone is refused by the
\* foreign key and ends the submission in its catch block
NextClear ==
  \E p \in Procs :
    \/ \E t \in {"song x", "song y"} :
         Len(toasts[p]) < MaxSubmits /\ handleSubmitRequest_action(p, t)
    \/ handleSubmitRequest_existingRequest(p)
         /\ UNCHANGED overlayVars /\ UNCHANGED notifyVars
    \/ handleSubmitRequest_newRequest(p)
         /\ UNCHANGED overlayVars /\ UNCHANGED notifyVars
    \/ /\ pc[p] = "submit_join" /\ ~ForeignKeyViolation(tmp[p].found)
       /\ handleSubmitRequest_join(p) /\ handleSubmitRequest_succeeded(p)
    \/ /\ pc[p] = "submit_requester" /\ ~ForeignKeyViolation(tmp[p].made)
       /\ handleSubmitRequest_requester(p) /\ handleSubmitRequest_succeeded(p)
    \/ /\ \/ pc[p] = "submit_join" /\ ForeignKeyViolation(tmp[p].found)
          \/ pc[p] = "submit_requester" /\ ForeignKeyViolation(tmp[p].made)
       /\ handleSubmitRequest_catch_other(p)
    \/ \E r \in ReqIds :
         /\ handleVoteRequest(p, r, currentUser(p))
         /\ UNCHANGED overlayVars /\ UNCHANGED notifyVars
    \/ handleVoteRequest_existingVote(p)
         /\ UNCHANGED overlayVars /\ UNCHANGED notifyVars
    \/ handleVoteRequest_update(p)
         /\ UNCHANGED overlayVars /\ UNCHANGED notifyVars
    \/ handleVoteRequest_insert(p)
         /\ UNCHANGED overlayVars /\ UNCHANGED notifyVars
    \/ handleResetQueue(p) /\ UNCHANGED notifyVars

SpecClear == InitSubmitFrame /\ [][NextClear]_vars

\* client p clears the queue in this step
ResetStep(p) ==
  /\ calls'[p] = calls[p] + 1
  /\ pc'[p] = "idle"
  /\ res'[p].op = "resetQueue"

handleSubmitRequest_guard(p) ==
  /\ calls[p] < quota[p]
  /\ calls' = [calls EXCEPT ![p] = @ + 1]
  /\ IF requestInProgressRef[p]
       THEN UNCHANGED guardVars
       ELSE /\ requestInProgressRef' = [requestInProgressRef EXCEPT ![p] = TRUE]
            /\ executions' = [executions EXCEPT ![p] = @ \cup {calls[p] + 1}]
  /\ UNCHANGED <<requests, requesters, user_votes, clock, pc, arg, usr, tmp,
                 res, txVars, quota, feedVars, evq, hist, votes0, overlayVars,
                 requestRetriesRef, toasts>>

\* a call past the guard ends: with success (requestRetriesRef = 0), with a
\* network error (the counter is raised and the retry timer started while
\* it is below MAX_REQUEST_RETRIES) or with another error; in every case
\* finally { requestInProgressRef.current = false }
handleSubmitRequest_finally(p, e, outcome) ==
  /\ e \in executions[p]
  /\ executions' = [executions EXCEPT ![p] = @ \ {e}]
  /\ requestInProgressRef' = [requestInProgressRef EXCEPT ![p] = FALSE]
  /\ IF outcome = "network" /\ requestRetriesRef[p] < MAX_REQUEST_RETRIES
       THEN /\ requestRetriesRef' = [requestRetriesRef EXCEPT ![p] = @ + 1]
            /\ timers' = [timers EXCEPT ![p] =
                            @ \cup {[fn |-> "retrySubmit", key |-> e,
                                      call |-> 0, data |-> "song x"]}]
       ELSE /\ requestRetriesRef' = [requestRetriesRef EXCEPT ![p] = 0]
            /\ UNCHANGED timers
  /\ UNCHANGED <<requests, requesters, user_votes, clock, pc, arg, usr, tmp,
                 res, txVars, calls, quota, feedVars, evq, hist, votes0,
                 optimisticRequests, uiRequests, optimisticVotes, appVotes,
                 votingStates, dateNow, rendered, toasts>>

\* the retry timer runs, whatever else is running:
\* requestInProgressRef.current = false; handleSubmitRequest(data), whose
\* guard then lets the call pass
timer_retryGuard(p, tm) ==
  /\ tm \in timers[p]
  /\ tm.fn = "retrySubmit"
  /\ calls[p] < quota[p]
  /\ calls' = [calls EXCEPT ![p] = @ + 1]
  /\ timers' = [timers EXCEPT ![p] = @ \ {tm}]
  /\ requestInProgressRef' = [requestInProgressRef EXCEPT ![p] = TRUE]
  /\ executions' = [executions EXCEPT ![p] = @ \cup {calls[p] + 1}]
  /\ UNCHANGED <<requests, requesters, user_votes, clock, pc, arg, usr, tmp,
                 res, txVars, quota, feedVars, evq, hist, votes0,
                 optimisticRequests, uiRequests, optimisticVotes, appVotes,
                 votingStates, dateNow, rendered, requestRetriesRef, toasts>>

NextGuard ==
  \E p \in Audience :
    \/ handleSubmitRequest_guard(p)
    \/ \E e \in executions[p] :
         \E outcome \in {"success", "network", "other"} :
           handleSubmitRequest_finally(p, e, outcome)
    \/ \E tm \in timers[p] : timer_retryGuard(p, tm)

SpecGuard == InitRetry /\ [][NextGuard]_vars

\* C38: no client has two calls of handleSubmitRequest past the guard at
\* the same time.
C38_OneSubmissionInFlight ==
  \A p \in Procs : Cardinality(executions[p]) <= 1

\* C39: when handleSubmitRequest has returned, with true or with false, the
\* request row it created, if any, has at least one requester row.
C39_CreatedRequestHasRequester ==
  \A p \in Procs :
    (/\ pc[p] = "idle"
     /\ res[p].op = "handleSubmitRequest"
     /\ res[p].made # 0
     /\ requests[res[p].made].exists)
      => requesters[res[p].made] # <<>>

====
